---- MODULE Spec2Model ----
(***************************************************************************)
(* A model of the Sparse Vector Tree (SVT) engine of S4Arrays:             *)
(*   - SparseArray_subassignment.c : the two-pass subassignment engine     *)
(*     (C_subassign_SVT_by_Mindex / C_subassign_SVT_by_Lindex),            *)
(*   - SVT_SparseArray_class.c     : the SVT <-> COO converters.           *)
(*                                                                         *)
(* R objects with identity (lists, external pointers) live in a heap: a    *)
(* sequence of objects, an object's address being its index.  A slot of a  *)
(* list holds an address, or Nil for R_NilValue.  SET_VECTOR_ELT on a list *)
(* is an in-place update of the heap cell of that list.                    *)
(***************************************************************************)
EXTENDS Integers, Sequences, FiniteSets, TLC

(* Largest number of updates in one batch (length of 'vals'). *)
MaxL == 2

INT_MAX == 2147483647

(* R_NilValue: the absent child. *)
Nil == 0

(* Shapes 'x_dim' tried; dim[1] is axis 0, dim[Len(dim)] the outermost axis. *)
Dims == {<<2>>, <<2, 2>>, <<1, 2, 2>>}

(* Element values of the incoming 'vals' (0 is the zero of the kind). *)
Vals == {0, 1, 2}

(* Element values held by the leaves of the input SVT. *)
XVals == {1}

Min(a, b) == IF a < b THEN a ELSE b

Max(a, b) == IF a > b THEN a ELSE b

RECURSIVE Prod(_, _)
Prod(dm, n) == IF n = 0 THEN 1 ELSE dm[n] * Prod(dm, n - 1)

RECURSIVE SortedSeq(_)
SortedSeq(S) ==
    IF S = {} THEN <<>>
    ELSE LET m == CHOOSE x \in S : \A y \in S : x <= y
         IN <<m>> \o SortedSeq(S \ {m})

(***************************************************************************)
(* SVT values (the tree without object identity).                          *)
(*   NilV                         absent                                   *)
(*   [t |-> "lv", offs, vals]     a "leaf vector": list of 2 parallel      *)
(*                                vectors (positions, values)              *)
(*   [t |-> "node", kids]         a regular node: list of sub-SVTs         *)
(***************************************************************************)
NilV == [t |-> "nil"]

LeafV(offs, vals) == [t |-> "lv", offs |-> offs, vals |-> vals]

(* The leaf vectors the constructors of SVT_SparseArray_class.c build over *)
(* an axis of size d: positions 1..d strictly ascending, no zero value.    *)
LeafValues(d, V) ==
    { LeafV(SortedSeq(S), [k \in 1..Cardinality(S) |-> f[SortedSeq(S)[k]]]) :
        S \in (SUBSET (1..d)) \ {{}}, f \in [1..d -> V] }

RECURSIVE Trees(_, _, _)
Trees(dm, n, V) ==
    IF n = 1 THEN {NilV} \cup LeafValues(dm[1], V)
    ELSE {NilV} \cup
         { [t |-> "node", kids |-> ks] :
             ks \in { k \in [1..dm[n] -> Trees(dm, n - 1, V)] :
                        \E i \in 1..dm[n] : k[i] # NilV } }

(***************************************************************************)
(* Heap objects.                                                           *)
(*   [t |-> "node", kids]           list of length d (VECSXP)              *)
(*   [t |-> "lv", offs, vals]       list of length 2                       *)
(*   [t |-> "ids", elts]            external pointer to an IntAE/LLongAE   *)
(*   [t |-> "xlv", offs, vals, ids] list of length 3: "extended leaf"      *)
(***************************************************************************)
NewList(d) == [t |-> "node", kids |-> [i \in 1..d |-> Nil]]

RECURSIVE Store(_, _)
RECURSIVE StoreKids(_, _, _, _)
(* Lays the SVT value v out in heap h; the node is allocated before its    *)
(* children.                                                               *)
Store(h, v) ==
    IF v.t = "nil" THEN [h |-> h, ref |-> Nil]
    ELSE IF v.t = "lv" THEN [h |-> Append(h, v), ref |-> Len(h) + 1]
    ELSE [h |-> StoreKids(Append(h, NewList(Len(v.kids))), Len(h) + 1, v.kids, 1),
          ref |-> Len(h) + 1]

StoreKids(h, a, ks, i) ==
    IF i > Len(ks) THEN h
    ELSE LET s == Store(h, ks[i])
         IN StoreKids([s.h EXCEPT ![a].kids[i] = s.ref], a, ks, i + 1)

RECURSIVE Deref(_, _)
(* The value of the tree rooted at address r of heap h. *)
Deref(h, r) ==
    IF r = Nil THEN NilV
    ELSE LET o == h[r]
         IN CASE o.t = "node" ->
                   [t |-> "node",
                    kids |-> [i \in 1..Len(o.kids) |-> Deref(h, o.kids[i])]]
              [] o.t = "xlv" ->
                   [t |-> "xlv", offs |-> o.offs, vals |-> o.vals,
                    ids |-> h[o.ids].elts]
              [] OTHER -> o

(***************************************************************************)
(* Leaf-vector and sort primitives used by the subassignment engine.       *)
(***************************************************************************)

(* sort_ints(order, n, keys, desc = 0, ...): the permutation of 0..n-1     *)
(* that lists the keys in ascending order, equal keys in ascending index   *)
(* order (stable).  Keys are >= 0.                                         *)
sort_ints(n, keys) ==
    LET codes == SortedSeq({ keys[k + 1] * n + k : k \in 0..(n - 1) })
    IN [j \in 1..n |-> codes[j] % n]

(* _copy_selected_ints(in, selection, n, out): out[k] = in[selection[k]]. *)
copy_selected_ints(in, selection, n) ==
    [k \in 1..n |-> in[selection[k] + 1]]

(* _copy_Rvector_elts_from_selected_offsets(in, offsets, selection, out):  *)
(* out[k] = in[offsets[selection[k]]], for k < length(out).                *)
copy_Rvector_elts_from_selected_offsets(in, offsets, selection, n) ==
    [k \in 1..n |-> in[offsets[selection[k] + 1] + 1]]

RECURSIVE merge_pairs(_, _, _, _)
merge_pairs(o1, v1, o2, v2) ==
    IF o1 = <<>> THEN [offs |-> o2, vals |-> v2]
    ELSE IF o2 = <<>> THEN [offs |-> o1, vals |-> v1]
    ELSE IF Head(o1) < Head(o2)
         THEN LET r == merge_pairs(Tail(o1), Tail(v1), o2, v2)
              IN [offs |-> <<Head(o1)>> \o r.offs, vals |-> <<Head(v1)>> \o r.vals]
    ELSE IF Head(o1) > Head(o2)
         THEN LET r == merge_pairs(o1, v1, Tail(o2), Tail(v2))
              IN [offs |-> <<Head(o2)>> \o r.offs, vals |-> <<Head(v2)>> \o r.vals]
    ELSE LET r == merge_pairs(Tail(o1), Tail(v1), Tail(o2), Tail(v2))
         IN [offs |-> <<Head(o2)>> \o r.offs, vals |-> <<Head(v2)>> \o r.vals]

(* _merge_leaf_vectors(lv1, lv2): ordered two-way merge on position; on a  *)
(* position held by both, the value of lv2 wins.  Zeros are kept.          *)
merge_leaf_vectors(lv1, lv2) ==
    LET r == merge_pairs(lv1.offs, lv1.vals, lv2.offs, lv2.vals)
    IN LeafV(r.offs, r.vals)

(* _remove_zeros_from_leaf_vector(lv, offs_buf): NilV when every value is  *)
(* zero, else lv without its zero-valued entries.                          *)
remove_zeros_from_leaf_vector(lv) ==
    LET keep == SortedSeq({ k \in 1..Len(lv.vals) : lv.vals[k] # 0 })
    IN IF keep = <<>> THEN NilV
       ELSE LeafV([j \in 1..Len(keep) |-> lv.offs[keep[j]]],
                  [j \in 1..Len(keep) |-> lv.vals[keep[j]]])

(* NA_INTEGER is INT_MIN. *)
NA_INTEGER == -INT_MAX - 1

COORD_IS_INVALID(coord, maxcoord) ==
    coord = NA_INTEGER \/ coord < 1 \/ coord > maxcoord

(* get_Lidx for an integer 'Lindex': the index, or an error. *)
get_Lidx(i) ==
    IF i = NA_INTEGER \/ i < 1
    THEN [err |-> "InvalidLinearIndex", Lidx |-> 0]
    ELSE [err |-> "", Lidx |-> i]

(***************************************************************************)
(* Pass 1 of the subassignment: dispatch.                                  *)
(* C indices (i, along, atid_off, order[k]) are kept 0-based; sequences    *)
(* are 1-based, so C's a[i] is a[i + 1] here.                              *)
(***************************************************************************)

(* new_IDS / new_llIDS + R_MakeExternalPtr: a fresh, empty IDS. *)
new_IDS == [t |-> "ids", elts |-> <<>>]

(* shallow_copy_list(x): a new list holding the same children. *)
shallow_copy_list(h, x) == [h |-> Append(h, h[x]), ref |-> Len(h) + 1]

(* make_SVT_node(SVT, d, SVT0): a new list when SVT is NULL, a shallow     *)
(* copy when SVT is the very node SVT0, else SVT itself.                   *)
make_SVT_node(h, SVT, d, SVT0) ==
    IF SVT = Nil
    THEN [err |-> "", h |-> Append(h, NewList(d)), ref |-> Len(h) + 1]
    ELSE IF h[SVT].t # "node" \/ Len(h[SVT].kids) # d
    THEN [err |-> "InternalError", h |-> h, ref |-> Nil]
    ELSE IF SVT = SVT0
    THEN [err |-> ""] @@ shallow_copy_list(h, SVT)
    ELSE [err |-> "", h |-> h, ref |-> SVT]

(* The MOVE_DOWN macro. *)
MOVE_DOWN(h, SVT, SVT0, i, subSVT, subSVT0, subSVT_len) ==
    LET s0 == IF SVT0 # Nil THEN h[SVT0].kids[i + 1] ELSE subSVT0
        m  == make_SVT_node(h, subSVT, subSVT_len, s0)
    IN [err     |-> m.err,
        h       |-> IF m.err = "" /\ m.ref # subSVT
                    THEN [m.h EXCEPT ![SVT].kids[i + 1] = m.ref]
                    ELSE m.h,
        SVT     |-> m.ref,
        SVT0    |-> IF SVT0 # Nil THEN s0 ELSE SVT0,
        subSVT0 |-> s0]

Descent(err, h, parent, idx, leaf) ==
    [err |-> err, h |-> h, bottom_leaf_parent |-> parent, idx |-> idx,
     bottom_leaf |-> leaf]

RECURSIVE descend_to_bottom_by_Mindex_row(_, _, _, _, _, _, _)
(* The do-loop of descend_to_bottom_by_Mindex_row, entered at 'along'. *)
descend_to_bottom_by_Mindex_row(h, SVT, SVT0, subSVT0, dm, along, row) ==
    LET d == dm[along + 1]
        m == row[along + 1]
        i == m - 1
    IN IF COORD_IS_INVALID(m, d)
       THEN Descent("InvalidCoordinate", h, Nil, 0, Nil)
       ELSE IF along = 1
       THEN Descent("", h, SVT, i, h[SVT].kids[i + 1])
       ELSE LET mv == MOVE_DOWN(h, SVT, SVT0, i, h[SVT].kids[i + 1],
                                subSVT0, dm[along])
            IN IF mv.err # ""
               THEN Descent(mv.err, mv.h, Nil, 0, Nil)
               ELSE descend_to_bottom_by_Mindex_row(mv.h, mv.SVT, mv.SVT0,
                                        mv.subSVT0, dm, along - 1, row)

RECURSIVE descend_to_bottom_by_Lidx(_, _, _, _, _, _, _)
(* descend_to_bottom_by_Lidx that counts the children of a node from its   *)
(* last one.                                                               *)
descend_to_bottom_by_Lidx_from_last(h, SVT, SVT0, subSVT0, dm, along, idx0) ==
    LET p == Prod(dm, along)
        i == dm[along + 1] - 1 - (idx0 \div p)
    IN IF along = 1
       THEN Descent("", h, SVT, i, h[SVT].kids[i + 1])
       ELSE LET mv == MOVE_DOWN(h, SVT, SVT0, i, h[SVT].kids[i + 1],
                                subSVT0, dm[along])
            IN IF mv.err # ""
               THEN Descent(mv.err, mv.h, Nil, 0, Nil)
               ELSE descend_to_bottom_by_Lidx(mv.h, mv.SVT, mv.SVT0,
                                        mv.subSVT0, dm, along - 1, idx0 % p)

(* The do-loop of descend_to_bottom_by_Lidx, entered at 'along' with idx0; *)
(* dimcumprod[along - 1] is Prod(dm, along).                               *)
descend_to_bottom_by_Lidx(h, SVT, SVT0, subSVT0, dm, along, idx0) ==
    LET p == Prod(dm, along)
        i == idx0 \div p
    IN IF along = 1
       THEN Descent("", h, SVT, i, h[SVT].kids[i + 1])
       ELSE LET mv == MOVE_DOWN(h, SVT, SVT0, i, h[SVT].kids[i + 1],
                                subSVT0, dm[along])
            IN IF mv.err # ""
               THEN Descent(mv.err, mv.h, Nil, 0, Nil)
               ELSE descend_to_bottom_by_Lidx(mv.h, mv.SVT, mv.SVT0,
                                        mv.subSVT0, dm, along - 1, idx0 % p)

(* get_IDS that puts a bare IDS in the place of a leaf vector. *)
get_IDS_in_place_of_leaf(h, bottom_leaf_parent, i, bottom_leaf) ==
    IF bottom_leaf = Nil \/ h[bottom_leaf].t = "lv"
    THEN [err |-> "", lv_len |-> 0, IDS |-> Len(h) + 1,
          h |-> [Append(h, new_IDS)
                   EXCEPT ![bottom_leaf_parent].kids[i + 1] = Len(h) + 1]]
    ELSE IF h[bottom_leaf].t = "ids"
    THEN [err |-> "", lv_len |-> 0, IDS |-> bottom_leaf, h |-> h]
    ELSE IF h[bottom_leaf].t = "xlv"
    THEN [err |-> "", lv_len |-> Len(h[bottom_leaf].offs),
          IDS |-> h[bottom_leaf].ids, h |-> h]
    ELSE [err |-> "InternalError", lv_len |-> 0, IDS |-> Nil, h |-> h]

(* get_IDS: the IDS of the bottom leaf in slot i of its parent, put there  *)
(* first if the slot holds none: NULL becomes an IDS, a leaf vector an     *)
(* extended leaf vector.                                                   *)
get_IDS(h, bottom_leaf_parent, i, bottom_leaf) ==
    IF bottom_leaf = Nil
    THEN [err |-> "", lv_len |-> 0, IDS |-> Len(h) + 1,
          h |-> [Append(h, new_IDS)
                   EXCEPT ![bottom_leaf_parent].kids[i + 1] = Len(h) + 1]]
    ELSE IF h[bottom_leaf].t = "ids"
    THEN [err |-> "", lv_len |-> 0, IDS |-> bottom_leaf, h |-> h]
    ELSE IF h[bottom_leaf].t = "lv"
    THEN [err |-> "", lv_len |-> Len(h[bottom_leaf].offs), IDS |-> Len(h) + 1,
          h |-> [h \o << new_IDS,
                          [t |-> "xlv", offs |-> h[bottom_leaf].offs,
                           vals |-> h[bottom_leaf].vals, ids |-> Len(h) + 1] >>
                   EXCEPT ![bottom_leaf_parent].kids[i + 1] = Len(h) + 2]]
    ELSE IF h[bottom_leaf].t = "xlv"
    THEN [err |-> "", lv_len |-> Len(h[bottom_leaf].offs),
          IDS |-> h[bottom_leaf].ids, h |-> h]
    ELSE [err |-> "InternalError", lv_len |-> 0, IDS |-> Nil, h |-> h]

(* append_atid_off_to_IDS / append_atid_lloff_to_IDS: returns the new      *)
(* length of the IDS.                                                      *)
append_atid_off_to_IDS(h, IDS, atid) ==
    [h |-> [h EXCEPT ![IDS].elts = Append(@, atid)],
     IDS_len |-> Len(h[IDS].elts) + 1]

(* UPDATE_MAX_IDS_LEN that keeps the first length it is given. *)
UPDATE_MAX_IDS_LEN_once(max, IDS_len) == IF max = 0 THEN IDS_len ELSE max

UPDATE_MAX_IDS_LEN(max, IDS_len) == IF IDS_len > max THEN IDS_len ELSE max

(* UPDATE_MAX_POSTMERGE_LV_LEN that leaves the length of the leaf vector   *)
(* out of the worst merged length.                                         *)
UPDATE_MAX_POSTMERGE_LV_LEN_of_IDS(max, lv_len, IDS_len) ==
    LET worst_merged_len == IF IDS_len > INT_MAX THEN INT_MAX ELSE IDS_len
    IN IF worst_merged_len > max THEN worst_merged_len ELSE max

UPDATE_MAX_POSTMERGE_LV_LEN(max, lv_len, IDS_len) ==
    LET worst_merged_len == IF lv_len + IDS_len > INT_MAX THEN INT_MAX
                            ELSE lv_len + IDS_len
    IN IF worst_merged_len > max THEN worst_merged_len ELSE max

(***************************************************************************)
(* Pass 2 of the subassignment: absorb.                                    *)
(***************************************************************************)

(* import_selected_Mindex_coord1_to_offs_buf without the test of the       *)
(* coordinate.                                                             *)
import_selected_Mindex_coord1_unchecked(coord1, atid_offs, maxcoord1) ==
    [err |-> "",
     offs |-> [k \in 1..Len(atid_offs) |-> coord1[atid_offs[k] + 1] - 1]]

(* import_selected_Mindex_coord1_to_offs_buf: coord1 is column 0 of        *)
(* 'Mindex'; offs_buf[k] = coord1[atid_offs[k]] - 1.                       *)
import_selected_Mindex_coord1_to_offs_buf(coord1, atid_offs, maxcoord1) ==
    IF \E k \in 1..Len(atid_offs) :
            COORD_IS_INVALID(coord1[atid_offs[k] + 1], maxcoord1)
    THEN [err |-> "InvalidCoordinate", offs |-> <<>>]
    ELSE [err |-> "",
          offs |-> [k \in 1..Len(atid_offs) |-> coord1[atid_offs[k] + 1] - 1]]

(* import_selected_Lindex_elts_to_offs_buf:                                *)
(* offs_buf[k] = (Lindex[atid_lloffs[k]] - 1) % d1.                        *)
import_selected_Lindex_elts_to_offs_buf(Lindex, atid_lloffs, d1) ==
    IF \E k \in 1..Len(atid_lloffs) :
            get_Lidx(Lindex[atid_lloffs[k] + 1]).err # ""
    THEN [err |-> "InvalidLinearIndex", offs |-> <<>>]
    ELSE [err |-> "",
          offs |-> [k \in 1..Len(atid_lloffs) |->
                      (get_Lidx(Lindex[atid_lloffs[k] + 1]).Lidx - 1) % d1]]

(* compute_offs_order: order[k] = k, then sort_ints on the keys 'offs'. *)
compute_offs_order(n, offs) == sort_ints(n, offs)

RECURSIVE remove_offs_dups_loop(_, _, _, _, _)
(* The for-loop of remove_offs_dups: p1 and k2 are the offsets of the      *)
(* pointers p1 and p2 in 'order_buf'.                                      *)
remove_offs_dups_loop(order_buf, p1, k2, n, offs) ==
    IF k2 >= n THEN [order |-> order_buf, len |-> p1 + 1]
    ELSE LET q1 == IF offs[order_buf[p1 + 1] + 1] # offs[order_buf[k2 + 1] + 1]
                   THEN p1 + 1 ELSE p1
         IN remove_offs_dups_loop(
                [order_buf EXCEPT ![q1 + 1] = order_buf[k2 + 1]],
                q1, k2 + 1, n, offs)

(* remove_offs_dups without the comparison of neighbouring offsets: every  *)
(* entry of 'order_buf' is kept.                                           *)
remove_offs_dups_keeps_all(order_buf, n, offs) ==
    [order |-> order_buf, len |-> n]

(* remove_offs_dups: keeps, of each run of equal offsets, the last entry   *)
(* of 'order_buf'; returns the number of entries kept.                     *)
remove_offs_dups(order_buf, n, offs) ==
    IF n <= 1 THEN [order |-> order_buf, len |-> n]
    ELSE remove_offs_dups_loop(order_buf, 0, 1, n, offs)

(* make_leaf_vector_from_selected_offsets / ..._lloffsets. *)
make_leaf_vector_from_selected_offsets(lv_len, order, offs, atid_offs, vs) ==
    LeafV(copy_selected_ints(offs, order, lv_len),
          copy_Rvector_elts_from_selected_offsets(vs, atid_offs, order, lv_len))

(* The tail shared by make_leaf_vector_from_IDS_Mindex_vals and            *)
(* make_leaf_vector_from_IDS_Lindex_vals once the offsets are imported.    *)
make_leaf_vector_from_offs_buf(offs, atid_offs, vs) ==
    LET IDS_len == Len(atid_offs)
        order   == compute_offs_order(IDS_len, offs)
        dd      == remove_offs_dups(order, IDS_len, offs)
    IN make_leaf_vector_from_selected_offsets(dd.len, dd.order, offs,
                                              atid_offs, vs)

(* make_leaf_vector_from_IDS_Mindex_vals: zeros are not dropped here. *)
make_leaf_vector_from_IDS_Mindex_vals(atid_offs, Mx, vs, d) ==
    LET coord1 == [k \in 1..Len(Mx) |-> Mx[k][1]]
        im == import_selected_Mindex_coord1_to_offs_buf(coord1, atid_offs, d)
    IN IF im.err # "" THEN [err |-> im.err, lv |-> NilV]
       ELSE [err |-> "", lv |-> make_leaf_vector_from_offs_buf(im.offs, atid_offs, vs)]

(* make_leaf_vector_from_IDS_Lindex_vals: zeros are not dropped here. *)
make_leaf_vector_from_IDS_Lindex_vals(atid_lloffs, Lx, vs, d) ==
    LET im == import_selected_Lindex_elts_to_offs_buf(Lx, atid_lloffs, d)
    IN IF im.err # "" THEN [err |-> im.err, lv |-> NilV]
       ELSE [err |-> "", lv |-> make_leaf_vector_from_offs_buf(im.offs, atid_lloffs, vs)]

make_leaf_vector_from_IDS(md, atid_offs, ix, vs, d) ==
    IF md = "Mindex"
    THEN make_leaf_vector_from_IDS_Mindex_vals(atid_offs, ix, vs, d)
    ELSE make_leaf_vector_from_IDS_Lindex_vals(atid_offs, ix, vs, d)

(* make_and_merge_leaf_vector_from_IDS_[M|L]index_vals: the leaf of the    *)
(* extended leaf vector xlv merged with the leaf made from its IDS, zeros  *)
(* removed after the merge.  xlv.ids holds the offsets of the IDS.         *)
make_and_merge_leaf_vector_from_IDS(md, xlv, ix, vs, d) ==
    LET lv1 == LeafV(xlv.offs, xlv.vals)
        r2  == make_leaf_vector_from_IDS(md, xlv.ids, ix, vs, d)
    IN IF r2.err # "" THEN r2
       ELSE [err |-> "",
             lv |-> remove_zeros_from_leaf_vector(merge_leaf_vectors(lv1, r2.lv))]

(* The bottom leaf returned as it is, whatever its kind. *)
absorb_bottom_leaf_as_is(md, h, SVT, ix, vs, d) ==
    [err |-> "", lv |-> h[SVT]]

(* What REC_absorb_vals_dispatched_by_[M|L]index returns for a bottom      *)
(* leaf (ndim == 1): an SVT value, NilV or a leaf vector.                  *)
absorb_bottom_leaf(md, h, SVT, ix, vs, d) ==
    LET o == h[SVT]
    IN CASE o.t = "ids" ->
              LET r == make_leaf_vector_from_IDS(md, o.elts, ix, vs, d)
              IN IF r.err # "" THEN r
                 ELSE [err |-> "", lv |-> remove_zeros_from_leaf_vector(r.lv)]
         [] o.t = "lv"  -> [err |-> "", lv |-> o]
         [] o.t = "xlv" ->
              make_and_merge_leaf_vector_from_IDS(md,
                  [offs |-> o.offs, vals |-> o.vals, ids |-> h[o.ids].elts],
                  ix, vs, d)
         [] OTHER -> [err |-> "InternalError", lv |-> NilV]

RECURSIVE REC_absorb_vals_dispatched(_, _, _, _, _, _, _)
RECURSIVE REC_absorb_children(_, _, _, _, _, _, _, _, _)
(* REC_absorb_vals_dispatched_by_[M|L]index returning a copy of a leaf     *)
(* vector that is kept.                                                    *)
REC_absorb_vals_dispatched_copying(md, h, SVT, dm, ndim, ix, vs) ==
    IF SVT = Nil THEN [err |-> "", h |-> h, ref |-> Nil]
    ELSE IF ndim = 1
    THEN LET r == absorb_bottom_leaf(md, h, SVT, ix, vs, dm[1])
         IN IF r.err # "" THEN [err |-> r.err, h |-> h, ref |-> Nil]
            ELSE IF r.lv = NilV THEN [err |-> "", h |-> h, ref |-> Nil]
            ELSE [err |-> "", h |-> Append(h, r.lv), ref |-> Len(h) + 1]
    ELSE REC_absorb_children(md, h, SVT, dm, ndim, ix, vs, 0, TRUE)

(* REC_absorb_vals_dispatched_by_Mindex / _by_Lindex: returns the heap,    *)
(* the address of the absorbed subtree (Nil if it is empty) and the error. *)
(* A leaf vector that is kept is returned as the same object; a leaf made  *)
(* from an IDS is a new object.                                            *)
REC_absorb_vals_dispatched(md, h, SVT, dm, ndim, ix, vs) ==
    IF SVT = Nil THEN [err |-> "", h |-> h, ref |-> Nil]
    ELSE IF ndim = 1
    THEN LET r == absorb_bottom_leaf(md, h, SVT, ix, vs, dm[1])
         IN IF r.err # "" THEN [err |-> r.err, h |-> h, ref |-> Nil]
            ELSE IF r.lv = NilV THEN [err |-> "", h |-> h, ref |-> Nil]
            ELSE IF h[SVT].t = "lv" THEN [err |-> "", h |-> h, ref |-> SVT]
            ELSE [err |-> "", h |-> Append(h, r.lv), ref |-> Len(h) + 1]
    ELSE REC_absorb_children(md, h, SVT, dm, ndim, ix, vs, 0, TRUE)

(* The for-loop over the children of a regular node, entered at child i. *)
REC_absorb_children(md, h, SVT, dm, ndim, ix, vs, i, is_empty) ==
    IF i >= Len(h[SVT].kids)
    THEN [err |-> "", h |-> h, ref |-> IF is_empty THEN Nil ELSE SVT]
    ELSE LET r == REC_absorb_vals_dispatched(md, h, h[SVT].kids[i + 1],
                                             dm, ndim - 1, ix, vs)
         IN IF r.err # "" THEN r
            ELSE REC_absorb_children(md,
                     [r.h EXCEPT ![SVT].kids[i + 1] = r.ref],
                     SVT, dm, ndim, ix, vs, i + 1,
                     is_empty /\ r.ref = Nil)

(***************************************************************************)
(* The 1D case.                                                            *)
(***************************************************************************)

(* make_leaf_vector_from_Lindex_vals without the test 'Lidx > d'. *)
make_leaf_vector_from_Lindex_vals_unbounded(Lx, vs, d) ==
    IF \E k \in 1..Len(vs) : get_Lidx(Lx[k]).err # ""
    THEN [err |-> "InvalidLinearIndex", lv |-> NilV]
    ELSE LET vals_len == Len(vs)
             offs  == [k \in 1..vals_len |-> get_Lidx(Lx[k]).Lidx - 1]
             order == compute_offs_order(vals_len, offs)
             dd    == remove_offs_dups(order, vals_len, offs)
         IN [err |-> "",
             lv |-> LeafV(copy_selected_ints(offs, dd.order, dd.len),
                          copy_selected_ints(vs, dd.order, dd.len))]

(* make_leaf_vector_from_Lindex_vals: 'Lx' and 'vs' have the same length,  *)
(* >= 1.                                                                   *)
make_leaf_vector_from_Lindex_vals(Lx, vs, d) ==
    LET rejected == { k \in 1..Len(vs) :
                        get_Lidx(Lx[k]).err # "" \/ get_Lidx(Lx[k]).Lidx > d }
        first == CHOOSE k \in rejected : \A j \in rejected : k <= j
    IN
    IF rejected # {}
    THEN [err |-> IF get_Lidx(Lx[first]).err # "" THEN "InvalidLinearIndex"
                  ELSE "InvalidIndex",
          lv |-> NilV]
    ELSE LET vals_len == Len(vs)
             offs  == [k \in 1..vals_len |-> get_Lidx(Lx[k]).Lidx - 1]
             order == compute_offs_order(vals_len, offs)
             dd    == remove_offs_dups(order, vals_len, offs)
         IN [err |-> "",
             lv |-> LeafV(copy_selected_ints(offs, dd.order, dd.len),
                          copy_selected_ints(vs, dd.order, dd.len))]

(* subassign_1D_SVT_by_Lindex: SVT is NilV or a leaf vector (a value). *)
subassign_1D_SVT_by_Lindex(d, SVT, Lx, vs) ==
    IF Len(vs) > INT_MAX THEN [err |-> "TooManyValues", lv |-> NilV]
    ELSE LET r == make_leaf_vector_from_Lindex_vals(Lx, vs, d)
         IN IF r.err # "" THEN r
            ELSE [err |-> "",
                  lv |-> remove_zeros_from_leaf_vector(
                            IF SVT # NilV THEN merge_leaf_vectors(SVT, r.lv)
                            ELSE r.lv)]

(***************************************************************************)
(* SVT -> COO (SVT_SparseArray_class.c), on SVT values.                    *)
(***************************************************************************)

RECURSIVE sum_leaf_vector_lengths_REC(_, _)
RECURSIVE sum_leaf_vector_lengths_children(_, _, _)
sum_leaf_vector_lengths_REC(SVT, ndim) ==
    IF SVT = NilV THEN 0
    ELSE IF ndim = 1 THEN Len(SVT.offs)
    ELSE sum_leaf_vector_lengths_children(SVT, ndim, 1)

sum_leaf_vector_lengths_children(SVT, ndim, k) ==
    IF k > Len(SVT.kids) THEN 0
    ELSE sum_leaf_vector_lengths_REC(SVT.kids[k], ndim - 1)
         + sum_leaf_vector_lengths_children(SVT, ndim, k + 1)

(* split_leaf_vector(lv): the length of the leaf vector, or -1 if lv is    *)
(* not a list of 2 parallel vectors.                                       *)
split_leaf_vector(lv) ==
    IF lv.t # "lv" THEN -1
    ELSE IF Len(lv.offs) > INT_MAX \/ Len(lv.vals) # Len(lv.offs) THEN -1
    ELSE Len(lv.offs)

RECURSIVE extract_nzindex_and_nzdata_from_SVT_REC(_, _, _)
RECURSIVE extract_from_children(_, _, _, _)
(* Returns the rows appended to 'nzindex' and the elements appended to     *)
(* 'nzdata' by the walk of SVT, or the error (ret < 0).  rowbuf[j + 1] is  *)
(* C's rowbuf[j].                                                          *)
extract_nzindex_and_nzdata_from_SVT_REC(SVT, rowbuf, rowbuf_offset) ==
    IF SVT = NilV THEN [err |-> FALSE, nzindex |-> <<>>, nzdata |-> <<>>]
    ELSE IF rowbuf_offset > 0
    THEN IF SVT.t # "node"
         THEN [err |-> TRUE, nzindex |-> <<>>, nzdata |-> <<>>]
         ELSE extract_from_children(SVT, rowbuf, rowbuf_offset, 0)
    ELSE IF split_leaf_vector(SVT) < 0
    THEN [err |-> TRUE, nzindex |-> <<>>, nzdata |-> <<>>]
    ELSE [err |-> FALSE,
          nzindex |-> [k \in 1..Len(SVT.offs) |->
                         [rowbuf EXCEPT ![1] = SVT.offs[k]]],
          nzdata |-> SVT.vals]

(* The for-loop over the children writing the C index k of the child in    *)
(* the row buffer instead of k + 1.                                        *)
extract_from_children_0based(SVT, rowbuf, rowbuf_offset, k) ==
    IF k >= Len(SVT.kids)
    THEN [err |-> FALSE, nzindex |-> <<>>, nzdata |-> <<>>]
    ELSE LET r == extract_nzindex_and_nzdata_from_SVT_REC(SVT.kids[k + 1],
                      [rowbuf EXCEPT ![rowbuf_offset + 1] = k],
                      rowbuf_offset - 1)
             rest == extract_from_children(SVT, rowbuf, rowbuf_offset, k + 1)
         IN IF r.err \/ rest.err
            THEN [err |-> TRUE, nzindex |-> <<>>, nzdata |-> <<>>]
            ELSE [err |-> FALSE, nzindex |-> r.nzindex \o rest.nzindex,
                  nzdata |-> r.nzdata \o rest.nzdata]

(* The for-loop over the children, entered at child k (0-based). *)
extract_from_children(SVT, rowbuf, rowbuf_offset, k) ==
    IF k >= Len(SVT.kids)
    THEN [err |-> FALSE, nzindex |-> <<>>, nzdata |-> <<>>]
    ELSE LET r == extract_nzindex_and_nzdata_from_SVT_REC(SVT.kids[k + 1],
                      [rowbuf EXCEPT ![rowbuf_offset + 1] = k + 1],
                      rowbuf_offset - 1)
             rest == extract_from_children(SVT, rowbuf, rowbuf_offset, k + 1)
         IN IF r.err \/ rest.err
            THEN [err |-> TRUE, nzindex |-> <<>>, nzdata |-> <<>>]
            ELSE [err |-> FALSE, nzindex |-> r.nzindex \o rest.nzindex,
                  nzdata |-> r.nzdata \o rest.nzdata]

(* C_from_SVT_SparseArray_to_COO_SparseArray: 'nzindex' as the sequence of *)
(* its rows, and 'nzdata'.                                                  *)
C_from_SVT_SparseArray_to_COO_SparseArray(x_dim, SVT) ==
    LET nzdata_len == sum_leaf_vector_lengths_REC(SVT, Len(x_dim))
        r == extract_nzindex_and_nzdata_from_SVT_REC(SVT,
                 [j \in 1..Len(x_dim) |-> 0], Len(x_dim) - 1)
    IN IF nzdata_len > INT_MAX
       THEN [err |-> "TooManyNonZeros", nzindex |-> <<>>, nzdata |-> <<>>]
       ELSE IF r.err \/ Len(r.nzdata) # nzdata_len
       THEN [err |-> "InternalError", nzindex |-> <<>>, nzdata |-> <<>>]
       ELSE [err |-> "", nzindex |-> r.nzindex, nzdata |-> r.nzdata]

(***************************************************************************)
(* From COO to SVT (C_build_SVT_from_COO_SparseArray).  The tree under     *)
(* construction is a value; besides the kinds above it holds               *)
(*   [t |-> "counts", n]            an integer vector of leaf lengths      *)
(*   [t |-> "alv", pos, vals, len]  an "appendable leaf vector" of         *)
(*                                  capacity len; pos and vals are the     *)
(*                                  slots written so far (nelt of them)    *)
(***************************************************************************)

(* NEW_LIST(len): a list of NULLs. *)
NewListV(len) == [t |-> "node", kids |-> [k \in 1..len |-> NilV]]

(* new_Rvector(INTSXP, len): an integer vector of zeros. *)
new_Rvector(len) == [t |-> "counts", n |-> [k \in 1..len |-> 0]]

(* make_leaf_vector(pos, lv_vals, maxpos), pos being column 0 of the       *)
(* 'nzindex' matrix given by its rows.                                     *)
make_leaf_vector(rows, lv_vals, maxpos) ==
    IF \E k \in 1..Len(lv_vals) : rows[k][1] < 1 \/ rows[k][1] > maxpos
    THEN [err |-> "OutOfBound", lv |-> NilV]
    ELSE [err |-> "",
          lv |-> LeafV([k \in 1..Len(lv_vals) |-> rows[k][1]], lv_vals)]

(* The end of grow_SVT: 'SVT' is the vector of counts of the column of the *)
(* row; its count is incremented.                                          *)
grow_counts(SVT, row) ==
    LET k == row[2] - 1
    IN IF k < 0 \/ k >= Len(SVT.n) THEN [ret |-> -1, SVT |-> SVT]
       ELSE [ret |-> 0, SVT |-> [SVT EXCEPT !.n[k + 1] = @ + 1]]

RECURSIVE grow_branch(_, _, _, _)
(* The loop of grow_SVT at its iteration j (ndim >= 3): 'SVT' is the list  *)
(* whose children lie along axis j + 1 (0-based).                          *)
grow_branch(SVT, dm, j, row) ==
    LET k == row[j + 2] - 1
    IN IF k < 0 \/ k >= Len(SVT.kids) THEN [ret |-> -1, SVT |-> SVT]
       ELSE LET subSVT == SVT.kids[k + 1]
                sub == IF subSVT # NilV THEN subSVT
                       ELSE IF j = 1 THEN new_Rvector(dm[j + 1])
                       ELSE NewListV(dm[j + 1])
                r == IF j = 1 THEN grow_counts(sub, row)
                     ELSE grow_branch(sub, dm, j - 1, row)
            IN [ret |-> r.ret, SVT |-> [SVT EXCEPT !.kids[k + 1] = r.SVT]]

(* grow_SVT without the test of the coordinate along axis 0. *)
grow_SVT_axis0_unchecked(SVT, dm, ndim, row) ==
    IF ndim >= 3 THEN grow_branch(SVT, dm, ndim - 2, row)
    ELSE grow_counts(SVT, row)

(* grow_SVT(SVT, dim, ndim, nzindex, nzdata_len, nzdata_offset) on the row *)
(* of 'nzindex' at 'nzdata_offset'.                                        *)
grow_SVT(SVT, dm, ndim, row) ==
    IF row[1] < 1 \/ row[1] > dm[1] THEN [ret |-> -1, SVT |-> SVT]
    ELSE IF ndim >= 3 THEN grow_branch(SVT, dm, ndim - 2, row)
    ELSE grow_counts(SVT, row)

alloc_appendable_leaf_vector(alv_len) ==
    [t |-> "alv", pos |-> <<>>, vals |-> <<>>, len |-> alv_len]

(* alloc_list_of_appendable_leaf_vectors without the test 'alv_len != 0'. *)
alloc_list_of_appendable_leaf_vectors_untested(alv_lens) ==
    [t |-> "node",
     kids |-> [k \in 1..Len(alv_lens) |->
                  alloc_appendable_leaf_vector(alv_lens[k])]]

alloc_list_of_appendable_leaf_vectors(alv_lens) ==
    [t |-> "node",
     kids |-> [k \in 1..Len(alv_lens) |->
                  IF alv_lens[k] # 0
                  THEN alloc_appendable_leaf_vector(alv_lens[k])
                  ELSE NilV]]

(* append_pos_val_pair_to_leaf_vector writing the next free slot counted   *)
(* from the end of the buffers.                                            *)
append_pos_val_pair_to_leaf_vector_from_end(alv, pos, val) ==
    IF Len(alv.pos) >= alv.len THEN [ret |-> -1, alv |-> alv]
    ELSE LET a == [alv EXCEPT !.pos = <<pos>> \o @, !.vals = <<val>> \o @]
         IN [ret |-> IF Len(a.pos) = a.len THEN 1 ELSE 0, alv |-> a]

(* append_pos_val_pair_to_leaf_vector: -1 when 'alv' is full, else 1 when  *)
(* the pair appended fills it, else 0.                                     *)
append_pos_val_pair_to_leaf_vector(alv, pos, val) ==
    IF Len(alv.pos) >= alv.len THEN [ret |-> -1, alv |-> alv]
    ELSE LET a == [alv EXCEPT !.pos = Append(@, pos), !.vals = Append(@, val)]
         IN [ret |-> IF Len(a.pos) = a.len THEN 1 ELSE 0, alv |-> a]

(* new_leaf_vector(lv_pos, lv_vals). *)
new_leaf_vector(lv_pos, lv_vals) == LeafV(lv_pos, lv_vals)

(* The end of store_nzpos_and_nzval_in_SVT without the replacement of an   *)
(* appendable leaf vector that is full.                                    *)
store_in_leaf_never_full(SVT, row, val) ==
    LET k == row[2] - 1
        r == append_pos_val_pair_to_leaf_vector(SVT.kids[k + 1], row[1], val)
    IN IF r.ret < 0 THEN [ret |-> -1, SVT |-> SVT]
       ELSE [ret |-> 0, SVT |-> [SVT EXCEPT !.kids[k + 1] = r.alv]]

(* The end of store_nzpos_and_nzval_in_SVT: 'SVT' is the list of           *)
(* appendable leaf vectors of the column of the row.                       *)
store_in_leaf(SVT, row, val) ==
    LET k == row[2] - 1
        r == append_pos_val_pair_to_leaf_vector(SVT.kids[k + 1], row[1], val)
    IN IF r.ret < 0 THEN [ret |-> -1, SVT |-> SVT]
       ELSE IF r.ret = 1
       THEN [ret |-> 0,
             SVT |-> [SVT EXCEPT
                        !.kids[k + 1] = new_leaf_vector(r.alv.pos, r.alv.vals)]]
       ELSE [ret |-> 0, SVT |-> [SVT EXCEPT !.kids[k + 1] = r.alv]]

RECURSIVE store_in_branch(_, _, _, _)
(* The loop of store_nzpos_and_nzval_in_SVT at its iteration j (3 columns  *)
(* or more): a vector of counts met at the bottom becomes a list of        *)
(* appendable leaf vectors.                                                *)
store_in_branch(SVT, j, row, val) ==
    LET k == row[j + 2] - 1
        subSVT == SVT.kids[k + 1]
        r == IF j > 1 THEN store_in_branch(subSVT, j - 1, row, val)
             ELSE IF subSVT.t = "counts"
             THEN store_in_leaf(alloc_list_of_appendable_leaf_vectors(subSVT.n),
                                row, val)
             ELSE store_in_leaf(subSVT, row, val)
    IN [ret |-> r.ret, SVT |-> [SVT EXCEPT !.kids[k + 1] = r.SVT]]

store_nzpos_and_nzval_in_SVT(nzindex_ncol, row, val, SVT) ==
    IF nzindex_ncol >= 3 THEN store_in_branch(SVT, nzindex_ncol - 2, row, val)
    ELSE store_in_leaf(SVT, row, val)

(* The sanity checks of new_leaf_vector ("should never fail"): lv_pos is   *)
(* too long, or lv_pos and lv_vals differ in length.                       *)
new_leaf_vector_is_invalid(lv_pos, lv_vals) ==
    Len(lv_pos) > INT_MAX \/ Len(lv_pos) # Len(lv_vals)

(***************************************************************************)
(* SVT <-> ordinary array (SVT_SparseArray_class.c).  An array is the      *)
(* sequence of its elements in column-major order; an element is a code,   *)
(* 0 being the zero of the element kind (FALSE, 0L, 0.0, 0+0i, "", 00,     *)
(* NULL).                                                                  *)
(***************************************************************************)

(* The element kinds an SVT_SparseArray supports. *)
supported_SVT_Rtypes ==
    {"logical", "integer", "double", "complex", "character", "raw", "list"}

(* INTEGER(x) of the R API: the integer data of x; an error unless x is an *)
(* integer or a logical vector.                                            *)
INTEGER(Rtype, x) ==
    IF Rtype \in {"integer", "logical"} THEN [err |-> "", data |-> x]
    ELSE [err |-> "TypeError", data |-> <<>>]

(* new_Rarray(Rtype, dim, dimnames): an array of zeros. *)
new_Rarray(Rtype, dm) == [k \in 1..Prod(dm, Len(dm)) |-> 0]

RECURSIVE dump_leaf_vector(_, _, _, _)
(* The for-loop of dump_SVT_to_Rsubarray_REC over the leaf vector lv,      *)
(* entered at k (0-based): copy_Rvector_elt_FUN(lv_vals, k, Rarray,        *)
(* offset).                                                                *)
dump_leaf_vector(lv, Rarray, subarr_offset, k) ==
    IF k >= Len(lv.offs) THEN Rarray
    ELSE LET offset == subarr_offset + lv.offs[k + 1] - 1
         IN dump_leaf_vector(lv,
                [Rarray EXCEPT ![offset + 1] = lv.vals[k + 1]],
                subarr_offset, k + 1)

RECURSIVE dump_SVT_to_Rsubarray_REC(_, _, _, _, _, _)
RECURSIVE dump_children_to_Rsubarray(_, _, _, _, _, _, _)
(* Returns ret and the array after the walk of SVT. *)
dump_SVT_to_Rsubarray_REC(SVT, dm, ndim, Rarray, subarr_offset, subarr_len) ==
    IF SVT = NilV THEN [ret |-> 0, Rarray |-> Rarray]
    ELSE IF ndim = 1
    THEN IF split_leaf_vector(SVT) < 0 THEN [ret |-> -1, Rarray |-> Rarray]
         ELSE [ret |-> 0,
               Rarray |-> dump_leaf_vector(SVT, Rarray, subarr_offset, 0)]
    ELSE IF SVT.t # "node" \/ Len(SVT.kids) # dm[ndim]
    THEN [ret |-> -1, Rarray |-> Rarray]
    ELSE dump_children_to_Rsubarray(SVT, dm, ndim, Rarray, subarr_offset,
                                    subarr_len \div Len(SVT.kids), 0)

(* The for-loop over the children, entered at child k (0-based). *)
dump_children_to_Rsubarray(SVT, dm, ndim, Rarray, subarr_offset, subarr_len, k) ==
    IF k >= Len(SVT.kids) THEN [ret |-> 0, Rarray |-> Rarray]
    ELSE LET r == dump_SVT_to_Rsubarray_REC(SVT.kids[k + 1], dm, ndim - 1,
                                            Rarray, subarr_offset, subarr_len)
         IN IF r.ret < 0 THEN r
            ELSE dump_children_to_Rsubarray(SVT, dm, ndim, r.Rarray,
                     subarr_offset + subarr_len, subarr_len, k + 1)

(* C_from_SVT_SparseArray_to_Rarray(x_dim, x_dimnames, x_type, x_SVT). *)
C_from_SVT_SparseArray_to_Rarray(x_dim, x_type, x_SVT) ==
    IF x_type \notin supported_SVT_Rtypes
    THEN [err |-> "UnsupportedElementType", ans |-> <<>>]
    ELSE LET ans == new_Rarray(x_type, x_dim)
             r == dump_SVT_to_Rsubarray_REC(x_SVT, x_dim, Len(x_dim),
                                            ans, 0, Len(ans))
         IN IF r.ret < 0 THEN [err |-> "InternalError", ans |-> <<>>]
            ELSE [err |-> "", ans |-> r.Rarray]

(* build_SVT_from_Rsubvec: the elements are tested and copied through      *)
(* INTEGER(Rvector) and INTEGER(lv_vals), whatever the element kind.       *)
build_SVT_from_Rsubvec(Rtype, Rvector, subvec_offset, subvec_len) ==
    LET data == INTEGER(Rtype, Rvector)
        nz == { i \in 0..(subvec_len - 1) :
                    data.data[subvec_offset + i + 1] # 0 }
    IN IF subvec_len >= 1 /\ data.err # "" THEN [err |-> data.err, SVT |-> NilV]
       ELSE IF nz = {} THEN [err |-> "", SVT |-> NilV]
       ELSE [err |-> "",
             SVT |-> LeafV([k \in 1..Cardinality(nz) |-> SortedSeq(nz)[k] + 1],
                           [k \in 1..Cardinality(nz) |->
                              data.data[subvec_offset + SortedSeq(nz)[k] + 1]])]

RECURSIVE build_SVT_from_Rsubarray_REC(_, _, _, _, _, _)
RECURSIVE build_children_from_Rsubarray(_, _, _, _, _, _, _, _)
(* Returns the error raised, if any, and the SVT of the subarray. *)
build_SVT_from_Rsubarray_REC(Rtype, Rarray, subarr_offset, subarr_len, dm, ndim) ==
    IF ndim = 1
    THEN IF dm[1] # subarr_len THEN [err |-> "InternalError", SVT |-> NilV]
         ELSE build_SVT_from_Rsubvec(Rtype, Rarray, subarr_offset, dm[1])
    ELSE LET SVT_len == dm[ndim]
             r == build_children_from_Rsubarray(Rtype, Rarray, subarr_offset,
                      subarr_len \div SVT_len, dm, ndim, 0, NewListV(SVT_len))
         IN IF r.err # "" THEN r
            ELSE IF \A k \in 1..SVT_len : r.SVT.kids[k] = NilV
            THEN [err |-> "", SVT |-> NilV]
            ELSE r

(* The for-loop over the children, entered at child k (0-based) with the   *)
(* list 'ans' under construction.                                          *)
build_children_from_Rsubarray(Rtype, Rarray, subarr_offset, subarr_len, dm, ndim, k, ans) ==
    IF k >= dm[ndim] THEN [err |-> "", SVT |-> ans]
    ELSE LET r == build_SVT_from_Rsubarray_REC(Rtype, Rarray, subarr_offset,
                                               subarr_len, dm, ndim - 1)
         IN IF r.err # "" THEN r
            ELSE build_children_from_Rsubarray(Rtype, Rarray,
                     subarr_offset + subarr_len, subarr_len, dm, ndim, k + 1,
                     [ans EXCEPT !.kids[k + 1] = r.SVT])

(* C_build_SVT_from_Rarray(x), x of kind Rtype and shape x_dim. *)
C_build_SVT_from_Rarray(Rtype, x_dim, x) ==
    IF Rtype \notin supported_SVT_Rtypes
    THEN [err |-> "UnsupportedElementType", SVT |-> NilV]
    ELSE IF Len(x) = 0 THEN [err |-> "", SVT |-> NilV]
    ELSE build_SVT_from_Rsubarray_REC(Rtype, x, 0, Len(x), x_dim, Len(x_dim))

(***************************************************************************)
(* SVT <-> dgCMatrix (SVT_SparseArray_class.c).  The slots p, i and x of   *)
(* the matrix are sequences; p[j + 1] here is C's p[j].                    *)
(***************************************************************************)

(* build_leaf_vector_from_dgCMatrix_col storing the row indices as they    *)
(* are, 0-based.                                                           *)
build_leaf_vector_from_dgCMatrix_col_0based(x_i, x_x, offset, lv_len) ==
    new_leaf_vector([k \in 1..lv_len |-> x_i[offset + k]],
                    [k \in 1..lv_len |-> x_x[offset + k]])

build_leaf_vector_from_dgCMatrix_col(x_i, x_x, offset, lv_len) ==
    new_leaf_vector([k \in 1..lv_len |-> x_i[offset + k] + 1],
                    [k \in 1..lv_len |-> x_x[offset + k]])

(* C_build_SVT_from_dgCMatrix(x, as_integer), x having x_ncol columns. *)
C_build_SVT_from_dgCMatrix(x_ncol, x_p, x_i, x_x, as_int) ==
    IF as_int THEN [err |-> "NotSupported", SVT |-> NilV]
    ELSE IF x_p[x_ncol + 1] = 0 THEN [err |-> "", SVT |-> NilV]
    ELSE [err |-> "",
          SVT |-> [t |-> "node",
                   kids |-> [j \in 1..x_ncol |->
                       LET offset == x_p[j]
                           lv_len == x_p[j + 1] - offset
                       IN IF lv_len # 0
                          THEN build_leaf_vector_from_dgCMatrix_col(
                                   x_i, x_x, offset, lv_len)
                          ELSE NilV]]]

RECURSIVE dump_SVT_to_CsparseMatrix_slots(_, _, _, _, _, _, _)
(* The for-loop of dump_SVT_to_CsparseMatrix_slots entered at column j     *)
(* (0-based); 'offset' is Len(ans_i), nzdata_len the length the slots i    *)
(* and x were allocated with.                                              *)
dump_SVT_to_CsparseMatrix_slots(x_SVT, x_ncol, nzdata_len, j, ans_p, ans_i, ans_x) ==
    IF j >= x_ncol
    THEN [ret |-> 0, p |-> ans_p, i |-> ans_i, x |-> ans_x]
    ELSE LET subSVT == x_SVT.kids[j + 1]
             lv_len == split_leaf_vector(subSVT)
         IN IF subSVT = NilV
            THEN dump_SVT_to_CsparseMatrix_slots(x_SVT, x_ncol, nzdata_len,
                     j + 1, Append(ans_p, Len(ans_i)), ans_i, ans_x)
            ELSE IF lv_len < 0 \/ Len(ans_i) + lv_len > nzdata_len
            THEN [ret |-> -1, p |-> ans_p, i |-> ans_i, x |-> ans_x]
            ELSE dump_SVT_to_CsparseMatrix_slots(x_SVT, x_ncol, nzdata_len,
                     j + 1, Append(ans_p, Len(ans_i) + lv_len),
                     ans_i \o [k \in 1..lv_len |-> subSVT.offs[k] - 1],
                     ans_x \o subSVT.vals)

(* C_from_SVT_SparseArray_to_CsparseMatrix(x_dim, x_type, x_SVT): the      *)
(* slots p, i and x.                                                       *)
C_from_SVT_SparseArray_to_CsparseMatrix(x_dim, x_SVT) ==
    IF Len(x_dim) # 2
    THEN [err |-> "DimensionError", p |-> <<>>, i |-> <<>>, x |-> <<>>]
    ELSE LET x_ncol == x_dim[2]
             nzdata_len == sum_leaf_vector_lengths_REC(x_SVT, 2)
             r == dump_SVT_to_CsparseMatrix_slots(x_SVT, x_ncol, nzdata_len,
                                                  0, <<0>>, <<>>, <<>>)
         IN IF nzdata_len > INT_MAX
            THEN [err |-> "TooManyNonZeros", p |-> <<>>, i |-> <<>>, x |-> <<>>]
            ELSE IF nzdata_len = 0
            THEN [err |-> "", p |-> new_Rvector(x_ncol + 1).n,
                  i |-> <<>>, x |-> <<>>]
            ELSE IF r.ret < 0
            THEN [err |-> "InternalError", p |-> <<>>, i |-> <<>>, x |-> <<>>]
            ELSE [err |-> "", p |-> r.p, i |-> r.i, x |-> r.x]

(***************************************************************************)
(* The reader of sparse CSV files (readSparseCSV.c), 'transpose' FALSE.    *)
(* A line is a sequence of characters; a character is a string of length 1 *)
(* ("LF" and "CR" stand for the line feed and the carriage return).        *)
(***************************************************************************)

LF == "LF"

CR == "CR"

(* The digits of a data field and their values. *)
DigitValue(c) ==
    CASE c = "0" -> 0 [] c = "1" -> 1 [] c = "2" -> 2 [] c = "3" -> 3
      [] c = "4" -> 4 [] c = "5" -> 5 [] c = "6" -> 6 [] c = "7" -> 7
      [] c = "8" -> 8 [] c = "9" -> 9

(* delete_trailing_LF_or_CRLF(data, data_len): the length of the data      *)
(* without its trailing LF or CRLF.                                        *)
delete_trailing_LF_or_CRLF(data, data_len) ==
    IF data_len = 0 \/ data[data_len] # LF THEN data_len
    ELSE IF data_len - 1 = 0 \/ data[data_len - 1] # CR THEN data_len - 1
    ELSE data_len - 2

RECURSIVE as_int(_, _)
(* as_int(data, data_len): the decimal integer written by the first        *)
(* data_len characters (digits) of 'data'.                                 *)
as_int(data, data_len) ==
    IF data_len = 0 THEN 0
    ELSE as_int(data, data_len - 1) * 10 + DigitValue(data[data_len])

(* load_csv_rowname: the row name is appended to 'csv_rownames_buf'. *)
load_csv_rowname(data, data_len, csv_rownames_buf) ==
    Append(csv_rownames_buf, SubSeq(data, 1, data_len))

(* 'offs_bufs' and 'vals_bufs', two IntAEAE of the same shape. *)
AEAEbufs(offs_bufs, vals_bufs) == [offs |-> offs_bufs, vals |-> vals_bufs]

(* new_IntAEAE(ncol0, ncol0): ncol0 empty buffers. *)
new_IntAEAE(ncol0) == [c \in 1..ncol0 |-> <<>>]

(* load_csv_data2: the field 'data' of the row row_idx0, column col_idx0   *)
(* (both counted from 0), is appended to the buffers of its column unless  *)
(* it is empty or zero.                                                    *)
load_csv_data2(data, data_len, row_idx0, col_idx0, bufs) ==
    LET len == delete_trailing_LF_or_CRLF(data, data_len)
        val == as_int(data, len)
    IN IF len = 0 \/ val = 0 THEN bufs
       ELSE AEAEbufs(
              [bufs.offs EXCEPT ![col_idx0 + 1] = Append(@, row_idx0)],
              [bufs.vals EXCEPT ![col_idx0 + 1] = Append(@, val)])

RECURSIVE load_csv_row_loop(_, _, _, _, _, _, _, _)
(* The while-loop of load_csv_row_to_AEAEbufs and the call that follows    *)
(* it: i is the offset of the next character of 'line', 'start' the offset *)
(* of 'data' in 'line'.                                                    *)
load_csv_row_loop(line, sep, row_idx0, col_idx, i, start, names, bufs) ==
    LET data_len == i - start
        data == SubSeq(line, start + 1, Len(line))
    IN IF i >= Len(line)
       THEN [names |-> names,
             bufs  |-> load_csv_data2(data, data_len, row_idx0, col_idx - 1,
                                      bufs)]
       ELSE IF line[i + 1] # sep
       THEN load_csv_row_loop(line, sep, row_idx0, col_idx, i + 1, start,
                              names, bufs)
       ELSE load_csv_row_loop(line, sep, row_idx0, col_idx + 1, i + 1, i + 1,
                IF col_idx = 0 THEN load_csv_rowname(data, data_len, names)
                ELSE names,
                IF col_idx = 0 THEN bufs
                ELSE load_csv_data2(data, data_len, row_idx0, col_idx - 1,
                                    bufs))

(* load_csv_row_to_AEAEbufs: used to load the sparse data when 'transpose' *)
(* is FALSE.                                                               *)
load_csv_row_to_AEAEbufs(line, sep, row_idx0, names, bufs) ==
    load_csv_row_loop(line, sep, row_idx0, 0, 0, 0, names, bufs)

(* make_leaf_vector_from_AEbufs: the two buffers, as a leaf vector. *)
make_leaf_vector_from_AEbufs(offs_buf, vals_buf) ==
    LeafV(offs_buf, vals_buf)

(* make_SVT_from_AEAEbufs: one leaf vector per non-empty buffer; NilV when *)
(* every buffer is empty.                                                  *)
make_SVT_from_AEAEbufs(offs_bufs, vals_bufs) ==
    LET SVT_len == Len(offs_bufs)
        ans == [i \in 1..SVT_len |->
                   IF Len(offs_bufs[i]) = 0 THEN NilV
                   ELSE make_leaf_vector_from_AEbufs(offs_bufs[i],
                                                     vals_bufs[i])]
    IN IF \A i \in 1..SVT_len : Len(offs_bufs[i]) = 0 THEN NilV
       ELSE [t |-> "node", kids |-> ans]

(***************************************************************************)
(* The subassignment call as a state machine.                              *)
(*   dim, mode, x_SVT, vals_len  the arguments of the call; x_SVT is the   *)
(*                        address of the input SVT in the heap             *)
(*   heap                 the R heap                                       *)
(*   heap0                the heap when the call was made                  *)
(*   index, vals          the rows of 'Mindex' (or the elements of         *)
(*                        'Lindex') and of 'vals' read so far              *)
(*   pc                   "entry", "pass1", "done" (returned), "error"     *)
(*   atid_off             the loop variable of dispatch_vals_by_[M|L]index *)
(*   ans                  the root of the tree under construction          *)
(*   result               the SVT returned                                 *)
(*   err                  the error raised                                 *)
(*   bad                  <<the row or linear index that was rejected>>    *)
(***************************************************************************)
VARIABLES dim, mode, x_SVT, vals_len, heap, heap0, index, vals, pc,
          atid_off, ans, max_IDS_len, max_postmerge_lv_len, result, err, bad

svars == <<dim, mode, x_SVT, vals_len, heap, heap0, index, vals, pc,
           atid_off, ans, max_IDS_len, max_postmerge_lv_len, result, err, bad>>

(***************************************************************************)
(* The round trips between SVT and COO as a state machine.                 *)
(*   cdim                 the shape 'x_dim'                                *)
(*   start                "svt": SVT -> COO -> SVT; "coo": COO -> SVT ->   *)
(*                        COO                                              *)
(*   svt0                 the SVT the round trip starts from               *)
(*   nzindex, nzdata      the COO form: the rows of 'x@nzindex' and the    *)
(*                        elements of 'x@nzdata'                           *)
(*   cpc                  "svt", "coo", "grow" (1st pass), "fill" (2nd     *)
(*                        pass), "built", "read", "error"                  *)
(*   ci                   the loop variable i of the two passes            *)
(*   cans                 the tree 'ans' under construction, then returned *)
(*   cout                 the COO form read back from the SVT built        *)
(*   cerr                 the error raised                                 *)
(***************************************************************************)
VARIABLES cdim, start, svt0, nzindex, nzdata, cpc, ci, cans, cout, cerr

cvars == <<cdim, start, svt0, nzindex, nzdata, cpc, ci, cans, cout, cerr>>

(***************************************************************************)
(* The round trips between SVT and ordinary array, and between SVT and     *)
(* dgCMatrix, as state machines.                                           *)
(*   ddim                 the shape 'x_dim'                                *)
(*   dtype                the element kind 'x_type'                        *)
(*   dstart               the representation the round trip starts from:   *)
(*                        "svt", "dense" or "csc"                          *)
(*   as_integer           the argument of C_build_SVT_from_dgCMatrix       *)
(*   dpc                  the representation at hand: "svt", "arr", "csc"; *)
(*                        "end" after the round trip; "error"              *)
(*   dsvt0, darr0, csc0   the SVT, the array or the matrix started from    *)
(*   dsvt, darr, csc      the SVT, the array and the matrix at hand        *)
(*   derr                 the error raised                                 *)
(***************************************************************************)
VARIABLES ddim, dtype, dstart, as_integer, dpc, dsvt0, darr0, csc0,
          dsvt, darr, csc, derr

dvars == <<ddim, dtype, dstart, as_integer, dpc, dsvt0, darr0, csc0,
           dsvt, darr, csc, derr>>

(***************************************************************************)
(* The reader of sparse CSV files as a state machine.                      *)
(*   csv_ncol             the number of columns of data of the file        *)
(*   csv_nline            the number of lines of the file, header included *)
(*   fields               the data fields of the rows read so far          *)
(*   stream               the lines read so far                            *)
(*   lineno, row_idx0     the locals of read_sparse_csv_as_SVT_SparseMatrix*)
(*   csv_rownames_buf     the row names read so far                        *)
(*   csv_bufs             'offs_bufs' and 'vals_bufs'                      *)
(*   rpc                  "reading", "done"                                *)
(*   csv_ans              the SVT returned                                 *)
(***************************************************************************)
VARIABLES csv_ncol, csv_nline, fields, stream, lineno, row_idx0,
          csv_rownames_buf, csv_bufs, rpc, csv_ans

rvars == <<csv_ncol, csv_nline, fields, stream, lineno, row_idx0,
           csv_rownames_buf, csv_bufs, rpc, csv_ans>>

(***************************************************************************)
(* The constructors of a leaf vector as a state machine.                   *)
(*   l_pos, l_vals        the arguments 'lv_pos' (or 'pos') and 'lv_vals'  *)
(*   l_maxpos             the argument 'maxpos' of make_leaf_vector        *)
(*   lpc                  "call", "done", "error"                          *)
(*   l_ans                the leaf vector returned                         *)
(*   lerr                 the error raised                                 *)
(***************************************************************************)
VARIABLES l_pos, l_vals, l_maxpos, lpc, l_ans, lerr

lvars == <<l_pos, l_vals, l_maxpos, lpc, l_ans, lerr>>

vars == <<svars, cvars, dvars, rvars, lvars>>

(* The variables a step of each machine leaves alone. *)
nonsvars == <<cvars, dvars, rvars, lvars>>

noncvars == <<svars, dvars, rvars, lvars>>

nondvars == <<svars, cvars, rvars, lvars>>

nonrvars == <<svars, cvars, dvars, lvars>>

nonlvars == <<svars, cvars, dvars, rvars>>

NoCOO == [nzindex |-> <<>>, nzdata |-> <<>>]

NoCSC == [p |-> <<>>, i |-> <<>>, x |-> <<>>]

(* No round trip is under way. *)
COOIdle ==
    /\ cdim = <<>>
    /\ start = "none"
    /\ svt0 = NilV
    /\ nzindex = <<>>
    /\ nzdata = <<>>
    /\ cpc = "idle"
    /\ ci = 0
    /\ cans = NilV
    /\ cout = NoCOO
    /\ cerr = ""

(* No round trip through an array or a dgCMatrix is under way. *)
DenseIdle ==
    /\ ddim = <<>>
    /\ dtype = "none"
    /\ dstart = "none"
    /\ as_integer = FALSE
    /\ dpc = "idle"
    /\ dsvt0 = NilV
    /\ darr0 = <<>>
    /\ csc0 = NoCSC
    /\ dsvt = NilV
    /\ darr = <<>>
    /\ csc = NoCSC
    /\ derr = ""

(* No file is being read. *)
ReaderIdle ==
    /\ csv_ncol = 0
    /\ csv_nline = 0
    /\ fields = <<>>
    /\ stream = <<>>
    /\ lineno = 0
    /\ row_idx0 = 0
    /\ csv_rownames_buf = <<>>
    /\ csv_bufs = AEAEbufs(<<>>, <<>>)
    /\ rpc = "idle"
    /\ csv_ans = NilV

(* No leaf vector is being constructed. *)
LeafIdle ==
    /\ l_pos = <<>>
    /\ l_vals = <<>>
    /\ l_maxpos = 0
    /\ lpc = "idle"
    /\ l_ans = NilV
    /\ lerr = ""

(* No subassignment is under way. *)
SubassignIdle ==
    /\ dim = <<>>
    /\ mode = "none"
    /\ x_SVT = Nil
    /\ vals_len = 0
    /\ heap = <<>>
    /\ heap0 = <<>>
    /\ index = <<>>
    /\ vals = <<>>
    /\ pc = "idle"
    /\ atid_off = 0
    /\ ans = Nil
    /\ max_IDS_len = 0
    /\ max_postmerge_lv_len = 0
    /\ result = Nil
    /\ err = ""
    /\ bad = <<>>

x_ndim == Len(dim)

(* The coordinates tried along axis j (1-based here) of an 'Mindex': the   *)
(* coordinates in range, the first one past the end and, on the axes the   *)
(* descent checks, 0.  For a 3-D array the coordinate along axis 0 is kept *)
(* in range: it is checked by the same code as for a 2-D array.            *)
MindexCoords(dm, j) ==
    IF j > 1 THEN 0..(dm[j] + 1)
    ELSE IF Len(dm) <= 2 THEN 1..(dm[1] + 1)
    ELSE 1..dm[1]

(* The rows an 'Mindex' may hold. *)
MindexRows(dm) ==
    { r \in [1..Len(dm) -> 0..(Max(dm[1], dm[Len(dm)]) + 1)] :
        \A j \in 1..Len(dm) : r[j] \in MindexCoords(dm, j) }

(* The elements a 'Lindex' may hold: NA, 0 and prod(dim) + 1 are invalid. *)
LindexElts(dm) == {NA_INTEGER} \cup 0..(Prod(dm, Len(dm)) + 1)

Init ==
    /\ dim \in Dims
    /\ mode \in {"Mindex", "Lindex"}
    /\ vals_len \in 0..MaxL
    /\ \E v \in Trees(dim, Len(dim), XVals) :
          /\ heap = Store(<<>>, v).h
          /\ x_SVT = Store(<<>>, v).ref
    /\ heap0 = heap
    /\ index = <<>>
    /\ vals = <<>>
    /\ pc = "entry"
    /\ atid_off = 0
    /\ ans = Nil
    /\ max_IDS_len = 0
    /\ max_postmerge_lv_len = 0
    /\ result = Nil
    /\ err = ""
    /\ bad = <<>>
    /\ COOIdle
    /\ DenseIdle
    /\ ReaderIdle
    /\ LeafIdle

(* The test of the length of 'vals' left out. *)
vals_len_is_zero_untested(n) ==
    FALSE

(* 'if (vals_len == 0) return x_SVT;' *)
vals_len_is_zero(n) ==
    n = 0

Return(r) ==
    /\ pc' = "done"
    /\ result' = r
    /\ err' = ""

Raise(e) ==
    /\ pc' = "error"
    /\ result' = Nil
    /\ err' = e

(* C_subassign_SVT_by_[M|L]index, vals_len == 0: the no-op. *)
NoOp ==
    /\ pc = "entry"
    /\ vals_len_is_zero(vals_len)
    /\ Return(x_SVT)
    /\ UNCHANGED <<dim, mode, x_SVT, vals_len, heap, heap0, index, vals,
                   atid_off, ans, max_IDS_len, max_postmerge_lv_len, bad>>
    /\ UNCHANGED nonsvars

(* C_subassign_SVT_by_[M|L]index, x_ndim == 1: the whole call.  An         *)
(* 'Mindex' with one column is read as a 'Lindex'.                         *)
Subassign1D ==
    /\ pc = "entry"
    /\ ~vals_len_is_zero(vals_len)
    /\ x_ndim = 1
    /\ \E Lx \in [1..vals_len -> LindexElts(dim)], vs \in [1..vals_len -> Vals] :
          LET r == subassign_1D_SVT_by_Lindex(dim[1], Deref(heap, x_SVT), Lx, vs)
          IN /\ index' = IF mode = "Mindex"
                         THEN [k \in 1..vals_len |-> <<Lx[k]>>] ELSE Lx
             /\ vals' = vs
             /\ IF r.err # "" THEN Raise(r.err) /\ heap' = heap
                ELSE IF r.lv = NilV THEN Return(Nil) /\ heap' = heap
                ELSE Return(Len(heap) + 1) /\ heap' = Append(heap, r.lv)
    /\ UNCHANGED <<dim, mode, x_SVT, vals_len, heap0, atid_off, ans,
                   max_IDS_len, max_postmerge_lv_len, bad>>
    /\ UNCHANGED nonsvars

(* C_subassign_SVT_by_[M|L]index, x_ndim >= 2, up to the call of           *)
(* dispatch_vals_by_[M|L]index:                                            *)
(*     ans = make_SVT_node(x_SVT, d, R_NilValue);                          *)
BeginPass1 ==
    /\ pc = "entry"
    /\ ~vals_len_is_zero(vals_len)
    /\ x_ndim >= 2
    /\ LET m == make_SVT_node(heap, x_SVT, dim[x_ndim], Nil)
       IN IF m.err # ""
          THEN Raise(m.err) /\ UNCHANGED <<heap, ans>>
          ELSE /\ heap' = m.h
               /\ ans' = m.ref
               /\ pc' = "pass1"
               /\ UNCHANGED <<result, err>>
    /\ UNCHANGED <<dim, mode, x_SVT, vals_len, heap0, index, vals, atid_off,
                   max_IDS_len, max_postmerge_lv_len, bad>>
    /\ UNCHANGED nonsvars

RECURSIVE dispatch_vals_by_Mindex(_, _, _, _, _, _, _)
(* The loop of dispatch_vals_by_Mindex from offset atid on, as a function  *)
(* of the rows Mx: mx is the pair of maxima the loop maintains.            *)
dispatch_vals_by_Mindex(h, SVT, SVT0, dm, Mx, atid, mx) ==
    IF atid >= Len(Mx) THEN [err |-> "", h |-> h, mx |-> mx]
    ELSE LET dr == descend_to_bottom_by_Mindex_row(h, SVT, SVT0, Nil, dm,
                                                   Len(dm) - 1, Mx[atid + 1])
         IN IF dr.err # "" THEN [err |-> dr.err, h |-> dr.h, mx |-> mx]
            ELSE LET g == get_IDS(dr.h, dr.bottom_leaf_parent, dr.idx,
                                  dr.bottom_leaf)
                     a == append_atid_off_to_IDS(g.h, g.IDS, atid)
                 IN IF g.err # "" THEN [err |-> g.err, h |-> g.h, mx |-> mx]
                    ELSE dispatch_vals_by_Mindex(a.h, SVT, SVT0, dm, Mx,
                             atid + 1,
                             [max_IDS_len |->
                                  UPDATE_MAX_IDS_LEN(mx.max_IDS_len, a.IDS_len),
                              max_postmerge_lv_len |->
                                  UPDATE_MAX_POSTMERGE_LV_LEN(
                                      mx.max_postmerge_lv_len, g.lv_len,
                                      a.IDS_len)])

(* C_subassign_SVT_by_Mindex for x_ndim >= 2 and length(vals) >= 1, as a   *)
(* function of its arguments: the heap it leaves and the SVT it returns.   *)
C_subassign_SVT_by_Mindex(h, SVT, dm, Mx, vs) ==
    LET m == make_SVT_node(h, SVT, dm[Len(dm)], Nil)
        p1 == dispatch_vals_by_Mindex(m.h, m.ref, SVT, dm, Mx, 0,
                  [max_IDS_len |-> 0, max_postmerge_lv_len |-> 0])
    IN IF m.err # "" THEN [err |-> m.err, h |-> h, ref |-> Nil]
       ELSE IF p1.err # "" THEN [err |-> p1.err, h |-> p1.h, ref |-> Nil]
       ELSE IF p1.mx.max_IDS_len > INT_MAX
       THEN [err |-> "IDSTooLarge", h |-> p1.h, ref |-> Nil]
       ELSE IF p1.mx.max_postmerge_lv_len < p1.mx.max_IDS_len
       THEN [err |-> "InternalError", h |-> p1.h, ref |-> Nil]
       ELSE REC_absorb_vals_dispatched("Mindex", p1.h, m.ref, dm, Len(dm),
                                       Mx, vs)

(* What one iteration of the dispatch loop does once the descent dr is     *)
(* made: get_IDS, append the offset, update the two maxima.                *)
DispatchTo(dr, ix, v) ==
    IF dr.err # ""
    THEN /\ Raise(dr.err)
         /\ heap' = dr.h
         /\ bad' = <<ix>>
         /\ UNCHANGED <<index, vals, atid_off, max_IDS_len, max_postmerge_lv_len>>
    ELSE LET g == get_IDS(dr.h, dr.bottom_leaf_parent, dr.idx, dr.bottom_leaf)
             a == append_atid_off_to_IDS(g.h, g.IDS, atid_off)
         IN IF g.err # ""
            THEN /\ Raise(g.err)
                 /\ heap' = g.h
                 /\ bad' = <<ix>>
                 /\ UNCHANGED <<index, vals, atid_off, max_IDS_len,
                                max_postmerge_lv_len>>
            ELSE /\ heap' = a.h
                 /\ index' = Append(index, ix)
                 /\ vals' = Append(vals, v)
                 /\ atid_off' = atid_off + 1
                 /\ max_IDS_len' = UPDATE_MAX_IDS_LEN(max_IDS_len, a.IDS_len)
                 /\ max_postmerge_lv_len' =
                        UPDATE_MAX_POSTMERGE_LV_LEN(max_postmerge_lv_len,
                                                    g.lv_len, a.IDS_len)
                 /\ UNCHANGED <<pc, result, err, bad>>

(* One iteration of the loop of dispatch_vals_by_Mindex, on the next row   *)
(* of 'Mindex' and the next element of 'vals'.                             *)
DispatchByMindex ==
    /\ pc = "pass1"
    /\ mode = "Mindex"
    /\ atid_off < vals_len
    /\ \E row \in MindexRows(dim), v \in Vals :
          DispatchTo(descend_to_bottom_by_Mindex_row(heap, ans, x_SVT, Nil,
                                                     dim, x_ndim - 1, row),
                     row, v)
    /\ UNCHANGED <<dim, mode, x_SVT, vals_len, heap0, ans>>
    /\ UNCHANGED nonsvars

(* One iteration of the loop of dispatch_vals_by_Lindex. *)
DispatchByLindex ==
    /\ pc = "pass1"
    /\ mode = "Lindex"
    /\ atid_off < vals_len
    /\ \E Li \in LindexElts(dim), v \in Vals :
          LET g == get_Lidx(Li)
          IN IF g.err # "" \/ g.Lidx > Prod(dim, x_ndim)
             THEN /\ Raise("InvalidLinearIndex")
                  /\ bad' = <<Li>>
                  /\ UNCHANGED <<heap, index, vals, atid_off, max_IDS_len,
                                 max_postmerge_lv_len>>
             ELSE DispatchTo(descend_to_bottom_by_Lidx(heap, ans, x_SVT, Nil,
                                        dim, x_ndim - 1, g.Lidx - 1),
                             Li, v)
    /\ UNCHANGED <<dim, mode, x_SVT, vals_len, heap0, ans>>
    /\ UNCHANGED nonsvars

(* C_subassign_SVT_by_[M|L]index after the dispatch: the two checks, then  *)
(* the 2nd pass (REC_absorb_vals_dispatched_by_[M|L]index) and the return. *)
Absorb ==
    /\ pc = "pass1"
    /\ atid_off = vals_len
    /\ IF max_IDS_len > INT_MAX
       THEN Raise("IDSTooLarge") /\ heap' = heap
       ELSE IF max_postmerge_lv_len < max_IDS_len
       THEN Raise("InternalError") /\ heap' = heap
       ELSE LET r == REC_absorb_vals_dispatched(mode, heap, ans, dim, x_ndim,
                                                index, vals)
            IN /\ heap' = r.h
               /\ IF r.err # "" THEN Raise(r.err) ELSE Return(r.ref)
    /\ UNCHANGED <<dim, mode, x_SVT, vals_len, heap0, index, vals, atid_off,
                   ans, max_IDS_len, max_postmerge_lv_len, bad>>
    /\ UNCHANGED nonsvars

Next ==
    \/ NoOp
    \/ Subassign1D
    \/ BeginPass1
    \/ DispatchByMindex
    \/ DispatchByLindex
    \/ Absorb

Spec == Init /\ [][Next]_vars

(***************************************************************************)
(* The round trips: C_from_SVT_SparseArray_to_COO_SparseArray and          *)
(* C_build_SVT_from_COO_SparseArray, one action per step of the latter.    *)
(***************************************************************************)

(* Largest number of rows of the COO form a round trip starts from. *)
MaxK == 2

(* Shapes tried by the round trips. *)
CooDims == {<<2>>, <<2, 2>>, <<2, 1, 2>>}

(* Elements of 'x@nzdata' tried: nothing requires them to be nonzero. *)
CooVals == {0, 1}

(* The coordinates tried along axis j (1-based here) of 'x@nzindex': those *)
(* in range, 0 and the first one past the end.                             *)
CooCoords(dm, j) == 0..(dm[j] + 1)

(* The rows tried: for N >= 3, at most one coordinate of a row is out of   *)
(* range.                                                                  *)
CooRows(dm) ==
    { r \in [1..Len(dm) -> 0..(Prod(dm, Len(dm)) + 1)] :
        /\ \A j \in 1..Len(dm) : r[j] \in CooCoords(dm, j)
        /\ Len(dm) >= 3 =>
              Cardinality({ j \in 1..Len(dm) : r[j] \notin 1..dm[j] }) <= 1 }

c_ndim == Len(cdim)

InitCOO ==
    /\ SubassignIdle
    /\ DenseIdle
    /\ ReaderIdle
    /\ LeafIdle
    /\ cdim \in CooDims
    /\ start \in {"svt", "coo"}
    /\ IF start = "svt"
       THEN /\ svt0 \in Trees(cdim, Len(cdim), Vals \ {0})
            /\ nzindex = <<>>
            /\ nzdata = <<>>
            /\ cpc = "svt"
       ELSE /\ svt0 = NilV
            /\ \E k \in 0..MaxK :
                  /\ nzindex \in [1..k -> CooRows(cdim)]
                  /\ nzdata \in [1..k -> CooVals]
            /\ cpc = "coo"
    /\ ci = 0
    /\ cans = NilV
    /\ cout = NoCOO
    /\ cerr = ""

CRaise(e) ==
    /\ cpc' = "error"
    /\ cerr' = e

(* C_from_SVT_SparseArray_to_COO_SparseArray(x_dim, x_type, svt0). *)
SvtToCoo ==
    /\ cpc = "svt"
    /\ LET r == C_from_SVT_SparseArray_to_COO_SparseArray(cdim, svt0)
       IN IF r.err # ""
          THEN CRaise(r.err) /\ UNCHANGED <<nzindex, nzdata>>
          ELSE /\ nzindex' = r.nzindex
               /\ nzdata' = r.nzdata
               /\ cpc' = "coo"
               /\ cerr' = ""
    /\ UNCHANGED <<cdim, start, svt0, ci, cans, cout>>
    /\ UNCHANGED noncvars

(* C_build_SVT_from_COO_SparseArray, 'if (nzdata_len == 0) return          *)
(* R_NilValue;'                                                            *)
BuildAbsent ==
    /\ cpc = "coo"
    /\ Len(nzdata) = 0
    /\ cans' = NilV
    /\ cpc' = "built"
    /\ UNCHANGED <<cdim, start, svt0, nzindex, nzdata, ci, cout, cerr>>
    /\ UNCHANGED noncvars

(* C_build_SVT_from_COO_SparseArray, 'if (x_ndim == 1) return              *)
(* make_leaf_vector(...);'                                                 *)
Build1D ==
    /\ cpc = "coo"
    /\ Len(nzdata) # 0
    /\ c_ndim = 1
    /\ LET r == make_leaf_vector(nzindex, nzdata, cdim[1])
       IN IF r.err # ""
          THEN CRaise(r.err) /\ UNCHANGED cans
          ELSE cans' = r.lv /\ cpc' = "built" /\ UNCHANGED cerr
    /\ UNCHANGED <<cdim, start, svt0, nzindex, nzdata, ci, cout>>
    /\ UNCHANGED noncvars

(* C_build_SVT_from_COO_SparseArray, the allocation of 'ans' before the    *)
(* 1st pass.                                                               *)
BeginGrow ==
    /\ cpc = "coo"
    /\ Len(nzdata) # 0
    /\ c_ndim >= 2
    /\ cans' = IF c_ndim = 2 THEN new_Rvector(cdim[c_ndim])
               ELSE NewListV(cdim[c_ndim])
    /\ ci' = 0
    /\ cpc' = "grow"
    /\ UNCHANGED <<cdim, start, svt0, nzindex, nzdata, cout, cerr>>
    /\ UNCHANGED noncvars

(* One iteration of the 1st pass: grow_SVT on row i. *)
GrowStep ==
    /\ cpc = "grow"
    /\ ci < Len(nzdata)
    /\ LET r == grow_SVT(cans, cdim, c_ndim, nzindex[ci + 1])
       IN IF r.ret < 0
          THEN CRaise("OutOfBound") /\ UNCHANGED <<cans, ci>>
          ELSE cans' = r.SVT /\ ci' = ci + 1 /\ UNCHANGED <<cpc, cerr>>
    /\ UNCHANGED <<cdim, start, svt0, nzindex, nzdata, cout>>
    /\ UNCHANGED noncvars

(* Between the two passes: for a matrix the vector of counts 'ans' is      *)
(* replaced by the list of appendable leaf vectors.                        *)
BeginFill ==
    /\ cpc = "grow"
    /\ ci = Len(nzdata)
    /\ cans' = IF c_ndim = 2
               THEN alloc_list_of_appendable_leaf_vectors(cans.n)
               ELSE cans
    /\ ci' = 0
    /\ cpc' = "fill"
    /\ UNCHANGED <<cdim, start, svt0, nzindex, nzdata, cout, cerr>>
    /\ UNCHANGED noncvars

(* One iteration of the 2nd pass: store_nzpos_and_nzval_in_SVT on row i. *)
FillStep ==
    /\ cpc = "fill"
    /\ ci < Len(nzdata)
    /\ LET r == store_nzpos_and_nzval_in_SVT(c_ndim, nzindex[ci + 1],
                                             nzdata[ci + 1], cans)
       IN IF r.ret < 0
          THEN CRaise("InternalError") /\ UNCHANGED <<cans, ci>>
          ELSE cans' = r.SVT /\ ci' = ci + 1 /\ UNCHANGED <<cpc, cerr>>
    /\ UNCHANGED <<cdim, start, svt0, nzindex, nzdata, cout>>
    /\ UNCHANGED noncvars

(* C_build_SVT_from_COO_SparseArray, 'return ans;' *)
BuildReturn ==
    /\ cpc = "fill"
    /\ ci = Len(nzdata)
    /\ cpc' = "built"
    /\ UNCHANGED <<cdim, start, svt0, nzindex, nzdata, ci, cans, cout, cerr>>
    /\ UNCHANGED noncvars

(* C_from_SVT_SparseArray_to_COO_SparseArray on the SVT just built. *)
ReadBack ==
    /\ cpc = "built"
    /\ start = "coo"
    /\ LET r == C_from_SVT_SparseArray_to_COO_SparseArray(cdim, cans)
       IN IF r.err # ""
          THEN CRaise(r.err) /\ UNCHANGED cout
          ELSE /\ cout' = [nzindex |-> r.nzindex, nzdata |-> r.nzdata]
               /\ cpc' = "read"
               /\ cerr' = ""
    /\ UNCHANGED <<cdim, start, svt0, nzindex, nzdata, ci, cans>>
    /\ UNCHANGED noncvars

NextCOO ==
    \/ SvtToCoo
    \/ BuildAbsent
    \/ Build1D
    \/ BeginGrow
    \/ GrowStep
    \/ BeginFill
    \/ FillStep
    \/ BuildReturn
    \/ ReadBack

SpecCOO == InitCOO /\ [][NextCOO]_vars

(***************************************************************************)
(* The round trips SVT -> array -> SVT and array -> SVT -> array.          *)
(***************************************************************************)

(* Shapes tried by the round trips through an ordinary array. *)
DenseDims == {<<2>>, <<2, 2>>, <<2, 1, 2>>}

(* Element codes tried: the zero of the kind and two other values. *)
DenseVals == {0, 1, 2}

InitDense ==
    /\ SubassignIdle
    /\ COOIdle
    /\ ReaderIdle
    /\ LeafIdle
    /\ ddim \in DenseDims
    /\ dtype \in supported_SVT_Rtypes
    /\ dstart \in {"svt", "dense"}
    /\ as_integer = FALSE
    /\ IF dstart = "svt"
       THEN /\ dsvt0 \in Trees(ddim, Len(ddim), DenseVals \ {0})
            /\ darr0 = <<>>
            /\ dpc = "svt"
       ELSE /\ dsvt0 = NilV
            /\ darr0 \in [1..Prod(ddim, Len(ddim)) -> DenseVals]
            /\ dpc = "arr"
    /\ dsvt = dsvt0
    /\ darr = darr0
    /\ csc0 = NoCSC
    /\ csc = NoCSC
    /\ derr = ""

(* The step made once a conversion has returned. *)
DReturn(first, next) ==
    /\ dpc' = IF dstart = first THEN next ELSE "end"
    /\ derr' = ""

DRaise(e) ==
    /\ dpc' = "error"
    /\ derr' = e

(* C_from_SVT_SparseArray_to_Rarray on the SVT at hand. *)
SvtToRarray ==
    /\ dpc = "svt"
    /\ dstart \in {"svt", "dense"}
    /\ LET r == C_from_SVT_SparseArray_to_Rarray(ddim, dtype, dsvt)
       IN IF r.err # "" THEN DRaise(r.err) /\ UNCHANGED darr
          ELSE darr' = r.ans /\ DReturn("svt", "arr")
    /\ UNCHANGED <<ddim, dtype, dstart, as_integer, dsvt0, darr0, csc0,
                   dsvt, csc>>
    /\ UNCHANGED nondvars

(* C_build_SVT_from_Rarray on the array at hand. *)
RarrayToSvt ==
    /\ dpc = "arr"
    /\ LET r == C_build_SVT_from_Rarray(dtype, ddim, darr)
       IN IF r.err # "" THEN DRaise(r.err) /\ UNCHANGED dsvt
          ELSE dsvt' = r.SVT /\ DReturn("dense", "svt")
    /\ UNCHANGED <<ddim, dtype, dstart, as_integer, dsvt0, darr0, csc0,
                   darr, csc>>
    /\ UNCHANGED nondvars

NextDense ==
    \/ SvtToRarray
    \/ RarrayToSvt

SpecDense == InitDense /\ [][NextDense]_vars

(***************************************************************************)
(* The round trips SVT -> dgCMatrix -> SVT and dgCMatrix -> SVT ->         *)
(* dgCMatrix.                                                              *)
(***************************************************************************)

(* Shapes (nrow, ncol) tried by the round trips through a dgCMatrix. *)
CscDims == {<<2, 2>>, <<1, 3>>}

(* Elements of the slot x tried: a dgCMatrix may store zeros. *)
CscVals == {0, 1, 2}

(* The slots (p, i, x) form a valid dgCMatrix of shape dm: p starts at 0   *)
(* and does not decrease, the row indices of each column are in            *)
(* 0..nrow-1 and strictly ascending.                                       *)
ValidCsc(dm, p, i, x) ==
    /\ p[1] = 0
    /\ \A j \in 1..dm[2] : p[j] <= p[j + 1]
    /\ Len(i) = p[dm[2] + 1]
    /\ Len(x) = Len(i)
    /\ \A j \in 1..dm[2] :
          \A k \in (p[j] + 1)..(p[j + 1] - 1) : i[k] < i[k + 1]

InitCSC ==
    /\ SubassignIdle
    /\ COOIdle
    /\ ReaderIdle
    /\ LeafIdle
    /\ ddim \in CscDims
    /\ dtype = "double"
    /\ dstart \in {"svt", "csc"}
    /\ as_integer \in BOOLEAN
    /\ IF dstart = "svt"
       THEN /\ dsvt0 \in Trees(ddim, 2, CscVals \ {0})
            /\ csc0 = NoCSC
            /\ dpc = "svt"
       ELSE /\ dsvt0 = NilV
            /\ \E p \in [1..(ddim[2] + 1) -> 0..(ddim[1] * ddim[2])] :
                  /\ p[1] = 0
                  /\ \A j \in 1..ddim[2] : p[j] <= p[j + 1]
                  /\ \E i \in [1..p[ddim[2] + 1] -> 0..(ddim[1] - 1)],
                        x \in [1..p[ddim[2] + 1] -> CscVals] :
                        /\ ValidCsc(ddim, p, i, x)
                        /\ csc0 = [p |-> p, i |-> i, x |-> x]
            /\ dpc = "csc"
    /\ dsvt = dsvt0
    /\ csc = csc0
    /\ darr0 = <<>>
    /\ darr = <<>>
    /\ derr = ""

(* C_from_SVT_SparseArray_to_CsparseMatrix on the SVT at hand. *)
SvtToCsc ==
    /\ dpc = "svt"
    /\ dstart \in {"svt", "csc"}
    /\ LET r == C_from_SVT_SparseArray_to_CsparseMatrix(ddim, dsvt)
       IN IF r.err # "" THEN DRaise(r.err) /\ UNCHANGED csc
          ELSE /\ csc' = [p |-> r.p, i |-> r.i, x |-> r.x]
               /\ DReturn("svt", "csc")
    /\ UNCHANGED <<ddim, dtype, dstart, as_integer, dsvt0, darr0, csc0,
                   dsvt, darr>>
    /\ UNCHANGED nondvars

(* C_build_SVT_from_dgCMatrix on the matrix at hand. *)
CscToSvt ==
    /\ dpc = "csc"
    /\ LET r == C_build_SVT_from_dgCMatrix(ddim[2], csc.p, csc.i, csc.x,
                                           as_integer)
       IN IF r.err # "" THEN DRaise(r.err) /\ UNCHANGED dsvt
          ELSE dsvt' = r.SVT /\ DReturn("csc", "svt")
    /\ UNCHANGED <<ddim, dtype, dstart, as_integer, dsvt0, darr0, csc0,
                   darr, csc>>
    /\ UNCHANGED nondvars

NextCSC ==
    \/ SvtToCsc
    \/ CscToSvt

SpecCSC == InitCSC /\ [][NextCSC]_vars

(***************************************************************************)
(* C_readSparseCSV_as_SVT_SparseMatrix with 'transpose' FALSE, one action  *)
(* per line read by read_sparse_csv_as_SVT_SparseMatrix.  Every line ends  *)
(* with LF or CRLF and every row holds the row name followed by 1 to       *)
(* csv_ncol data fields.                                                   *)
(***************************************************************************)

(* Largest number of rows of data of the file. *)
MaxR == 2

(* The separator 'sep'. *)
Sep == ","

(* The data fields tried, each with the integer it stands for. *)
CsvFields ==
    { [text |-> <<>>, value |-> 0],
      [text |-> <<"0">>, value |-> 0],
      [text |-> <<"2">>, value |-> 2],
      [text |-> <<"1", "0">>, value |-> 10] }

(* The ends of line tried. *)
CsvEOLs == { <<LF>>, <<CR, LF>> }

(* The header lines tried. *)
CsvHeaders == { <<LF>>, <<"h", Sep, "c", LF>> }

RECURSIVE CsvData(_, _)
(* The text of the first n data fields of a row, each after a separator. *)
CsvData(fs, n) ==
    IF n = 0 THEN <<>>
    ELSE CsvData(fs, n - 1) \o <<Sep>> \o fs[n].text

(* The line of the row named "r" with data fields fs. *)
CsvLine(fs, eol) == <<"r">> \o CsvData(fs, Len(fs)) \o eol

InitCSV ==
    /\ SubassignIdle
    /\ COOIdle
    /\ DenseIdle
    /\ LeafIdle
    /\ csv_ncol \in 1..2
    /\ csv_nline \in 0..(MaxR + 1)
    /\ fields = <<>>
    /\ stream = <<>>
    /\ lineno = 1
    /\ row_idx0 = 0
    /\ csv_rownames_buf = <<>>
    /\ csv_bufs = AEAEbufs(new_IntAEAE(csv_ncol), new_IntAEAE(csv_ncol))
    /\ rpc = "reading"
    /\ csv_ans = NilV

(* The iteration of the for-loop on line 1: 'if (lineno == 1) continue;' *)
ReadHeader ==
    /\ rpc = "reading"
    /\ Len(stream) < csv_nline
    /\ lineno = 1
    /\ \E line \in CsvHeaders : stream' = Append(stream, line)
    /\ lineno' = lineno + 1
    /\ UNCHANGED <<csv_ncol, csv_nline, fields, row_idx0, csv_rownames_buf,
                   csv_bufs, rpc, csv_ans>>
    /\ UNCHANGED nonrvars

(* An iteration of the for-loop on a later line: the row is loaded by      *)
(* load_csv_row_to_AEAEbufs.                                               *)
ReadRow ==
    /\ rpc = "reading"
    /\ Len(stream) < csv_nline
    /\ lineno # 1
    /\ \E n \in 1..csv_ncol :
          \E fs \in [1..n -> CsvFields], eol \in CsvEOLs :
             LET line == CsvLine(fs, eol)
                 r == load_csv_row_to_AEAEbufs(line, Sep, row_idx0,
                                               csv_rownames_buf, csv_bufs)
             IN /\ fields' = Append(fields, fs)
                /\ stream' = Append(stream, line)
                /\ csv_rownames_buf' = r.names
                /\ csv_bufs' = r.bufs
    /\ row_idx0' = row_idx0 + 1
    /\ lineno' = lineno + 1
    /\ UNCHANGED <<csv_ncol, csv_nline, rpc, csv_ans>>
    /\ UNCHANGED nonrvars

(* The end of the file: read_sparse_csv_as_SVT_SparseMatrix returns NULL   *)
(* and the SVT is made by make_SVT_from_AEAEbufs.                          *)
EndOfFile ==
    /\ rpc = "reading"
    /\ Len(stream) = csv_nline
    /\ csv_ans' = make_SVT_from_AEAEbufs(csv_bufs.offs, csv_bufs.vals)
    /\ rpc' = "done"
    /\ UNCHANGED <<csv_ncol, csv_nline, fields, stream, lineno, row_idx0,
                   csv_rownames_buf, csv_bufs>>
    /\ UNCHANGED nonrvars

NextCSV ==
    \/ ReadHeader
    \/ ReadRow
    \/ EndOfFile

SpecCSV == InitCSV /\ [][NextCSV]_vars

(***************************************************************************)
(* new_leaf_vector and make_leaf_vector called on any positions and        *)
(* values.                                                                 *)
(***************************************************************************)

(* Largest length of the arguments. *)
MaxLvLen == 2

(* The axis size 'maxpos' tried. *)
LeafMaxPos == 2

(* The positions tried: those in range, 0 and the first one past the end. *)
LeafPositions == 0..(LeafMaxPos + 1)

(* The values tried. *)
LeafVals == {1, 2}

InitLeaf ==
    /\ SubassignIdle
    /\ COOIdle
    /\ DenseIdle
    /\ ReaderIdle
    /\ \E n \in 0..MaxLvLen : l_pos \in [1..n -> LeafPositions]
    /\ \E n \in 0..MaxLvLen : l_vals \in [1..n -> LeafVals]
    /\ l_maxpos = LeafMaxPos
    /\ lpc = "call"
    /\ l_ans = NilV
    /\ lerr = ""

(* new_leaf_vector(l_pos, l_vals). *)
NewLeafVector ==
    /\ lpc = "call"
    /\ IF new_leaf_vector_is_invalid(l_pos, l_vals)
       THEN lpc' = "error" /\ lerr' = "InternalError" /\ UNCHANGED l_ans
       ELSE /\ l_ans' = new_leaf_vector(l_pos, l_vals)
            /\ lpc' = "done"
            /\ UNCHANGED lerr
    /\ UNCHANGED <<l_pos, l_vals, l_maxpos>>
    /\ UNCHANGED nonlvars

(* make_leaf_vector(l_pos, l_vals, l_maxpos): 'pos' points to at least     *)
(* LENGTH(lv_vals) positions.                                              *)
MakeLeafVector ==
    /\ lpc = "call"
    /\ Len(l_pos) >= Len(l_vals)
    /\ LET r == make_leaf_vector([k \in 1..Len(l_pos) |-> <<l_pos[k]>>],
                                 l_vals, l_maxpos)
       IN IF r.err # ""
          THEN lpc' = "error" /\ lerr' = r.err /\ UNCHANGED l_ans
          ELSE l_ans' = r.lv /\ lpc' = "done" /\ UNCHANGED lerr
    /\ UNCHANGED <<l_pos, l_vals, l_maxpos>>
    /\ UNCHANGED nonlvars

NextLeaf ==
    \/ NewLeafVector
    \/ MakeLeafVector

SpecLeaf == InitLeaf /\ [][NextLeaf]_vars

(***************************************************************************)
(* Properties of the subassignment.                                        *)
(***************************************************************************)

(* The 1st pass has dispatched every update of the batch. *)
Dispatched == pc = "pass1" /\ atid_off = vals_len

(* Every object of the heap of the call still is what it was. *)
InputIntact == \A a \in 1..Len(heap0) : heap[a] = heap0[a]

(* The coordinates (1-based, axis 0 first) of linear index Lidx in a       *)
(* column-major array of shape dm.                                         *)
CoordOfLidx(dm, Lidx) ==
    [j \in 1..Len(dm) |-> (((Lidx - 1) \div Prod(dm, j - 1)) % dm[j]) + 1]

(* The cell update k (1-based) of the batch addresses. *)
UpdateCoord(k) ==
    IF mode = "Mindex" THEN index[k] ELSE CoordOfLidx(dim, index[k])

InRange(c) == \A j \in 1..Len(dim) : c[j] \in 1..dim[j]

Addressed == { UpdateCoord(k) : k \in 1..Len(index) }

(* The last update of the batch that addresses cell c. *)
LastWrite(c) ==
    CHOOSE k \in 1..Len(index) :
        /\ UpdateCoord(k) = c
        /\ \A j \in 1..Len(index) : UpdateCoord(j) = c => j <= k

(* The (coordinates, value) pairs svt_to_coo reads from the SVT value v. *)
Entries(v) ==
    LET r == C_from_SVT_SparseArray_to_COO_SparseArray(dim, v)
    IN { <<r.nzindex[k], r.nzdata[k]>> : k \in 1..Len(r.nzdata) }

(* What the batch leaves in the cells it addresses. *)
Written ==
    { <<c, vals[LastWrite(c)]>> : c \in { a \in Addressed : vals[LastWrite(a)] # 0 } }

RECURSIVE Leaves(_)
Leaves(v) ==
    IF v.t = "node" THEN UNION { Leaves(v.kids[i]) : i \in 1..Len(v.kids) }
    ELSE IF v.t = "nil" THEN {}
    ELSE {v}

RECURSIVE NodesNonEmpty(_)
NodesNonEmpty(v) ==
    v.t = "node" =>
        /\ \E i \in 1..Len(v.kids) : v.kids[i] # NilV
        /\ \A i \in 1..Len(v.kids) : NodesNonEmpty(v.kids[i])

WellFormedLeaf(lv) ==
    /\ lv.t = "lv"
    /\ Len(lv.offs) >= 1
    /\ Len(lv.vals) = Len(lv.offs)
    /\ \A k \in 1..(Len(lv.offs) - 1) : lv.offs[k] < lv.offs[k + 1]
    /\ \A k \in 1..Len(lv.vals) : lv.vals[k] # 0

(* C1: for N >= 2 and L >= 1, once every update is dispatched (after Pass  *)
(* 1) and once the call has returned (after Pass 2), no object of the      *)
(* input SVT, its root node included, differs from what it was when the    *)
(* call was made.                                                          *)
C1_InputUnchanged ==
    (x_ndim >= 2 /\ vals_len >= 1 /\ (pc = "done" \/ Dispatched))
        => InputIntact

(* C2: for N >= 2, subassignment into the absent SVT followed by           *)
(* svt_to_coo yields exactly one row (idx, val) per addressed cell whose   *)
(* last written value is not zero, with the coordinates of idx on every    *)
(* axis, axis 0 included.                                                  *)
C2_CooOfSubassign ==
    (pc = "done" /\ x_ndim >= 2 /\ vals_len >= 1 /\ x_SVT = Nil) =>
        LET r == C_from_SVT_SparseArray_to_COO_SparseArray(
                     dim, Deref(heap, result))
        IN /\ r.err = ""
           /\ Entries(Deref(heap, result)) = Written
           /\ Len(r.nzdata) = Cardinality(Written)

(* C3: after Pass 1 (N >= 2), the leaf built from each IDS contains the    *)
(* axis-0 coordinate of every cell dispatched to it exactly once, with the *)
(* value of the last update addressing that cell, and nothing else.        *)
C3_LastWriteWins ==
    (Dispatched /\ x_ndim >= 2 /\ \A k \in 1..Len(index) : InRange(UpdateCoord(k)))
    => \A a \in { b \in 1..Len(heap) : heap[b].t = "ids" } :
          LET elts == heap[a].elts
              lv == make_leaf_vector_from_IDS(mode, elts, index, vals, dim[1]).lv
              c0(k) == UpdateCoord(elts[k] + 1)[1]
              last(c) == CHOOSE k \in 1..Len(elts) :
                            /\ c0(k) = c
                            /\ \A j \in 1..Len(elts) : c0(j) = c => j <= k
          IN /\ \A k \in 1..Len(elts) :
                   /\ Cardinality({ p \in 1..Len(lv.offs) : lv.offs[p] = c0(k) }) = 1
                   /\ \A p \in 1..Len(lv.offs) :
                         lv.offs[p] = c0(k) => lv.vals[p] = vals[elts[last(c0(k))] + 1]
             /\ Len(lv.offs) = Cardinality({ c0(k) : k \in 1..Len(elts) })

(* C4: in the SVT returned (N >= 2), the cells whose last written value is *)
(* zero have no entry, the entries of X the batch does not address are     *)
(* kept, the other addressed cells hold their last written value; every    *)
(* node has a non-absent child and the result is absent when no entry      *)
(* remains.                                                                *)
C4_ZeroErases ==
    (pc = "done" /\ x_ndim >= 2 /\ vals_len >= 1) =>
        LET kept == { e \in Entries(Deref(heap0, x_SVT)) : e[1] \notin Addressed }
        IN /\ Entries(Deref(heap, result)) = kept \cup Written
           /\ NodesNonEmpty(Deref(heap, result))
           /\ (kept \cup Written = {} => result = Nil)

(* C5: a call with L = 0 returns the very object it was passed and leaves  *)
(* the heap as it was: no node is created, cloned or modified.             *)
C5_EmptyBatchNoOp ==
    (pc = "done" /\ vals_len = 0) => (result = x_SVT /\ heap = heap0)

C5_Witness ==
    pc = "done" /\ vals_len = 0 /\ x_SVT # Nil /\ x_ndim >= 2

(* C6: when the call fails after some updates were dispatched, no object   *)
(* of the input SVT differs from what it was when the call was made.       *)
C6_InputUnchangedOnError ==
    (pc = "error" /\ x_ndim >= 2 /\ atid_off >= 1) => InputIntact

(* C7: every leaf of the SVT returned has strictly ascending positions, no *)
(* zero value and at least one entry.                                      *)
C7_LeavesWellFormed ==
    pc = "done" => \A lv \in Leaves(Deref(heap, result)) : WellFormedLeaf(lv)

C7_Witness ==
    /\ pc = "done"
    /\ x_SVT # Nil
    /\ \E j, k \in 1..Len(index) : j < k /\ UpdateCoord(j) = UpdateCoord(k)
    /\ \E k \in 1..Len(vals) : vals[k] = 0
    /\ \E lv \in Leaves(Deref(heap, result)) : Len(lv.offs) >= 2

(* C8: every position stored in a leaf of the SVT returned by a            *)
(* subassignment is 1-based: it lies in 1..dim[0].                         *)
C8_PositionsOneBased ==
    (pc = "done" /\ vals_len >= 1) =>
        \A lv \in Leaves(Deref(heap, result)) :
            \A k \in 1..Len(lv.offs) : lv.offs[k] \in 1..dim[1]

(***************************************************************************)
(* Properties of the round trips.                                          *)
(***************************************************************************)

(* The number of rows k of the COO form (rows, data) that are the pair p. *)
CountOf(rows, data, p) ==
    Cardinality({ k \in 1..Len(data) : <<rows[k], data[k]>> = p })

(* The rank of a row in the traversal of the SVT: axis N-1 slowest, axis 0 *)
(* fastest.                                                                *)
RECURSIVE TraversalRank(_, _, _)
TraversalRank(dm, row, j) ==
    IF j = 0 THEN 0
    ELSE (row[j] - 1) * Prod(dm, j - 1) + TraversalRank(dm, row, j - 1)

(* The rows are unique and given in traversal order. *)
InTraversalOrder(dm, rows) ==
    \A k \in 1..(Len(rows) - 1) :
        TraversalRank(dm, rows[k], Len(dm)) < TraversalRank(dm, rows[k + 1], Len(dm))

(* C9: the SVT built by coo_to_svt from the COO form svt_to_coo gives of a *)
(* well-formed SVT is that SVT: same absent children at every node, same   *)
(* leaves with the same positions and values in the same order.            *)
C9_SvtCooSvt ==
    (start = "svt" /\ cpc \in {"coo", "grow", "fill", "built", "error"}) =>
        /\ cpc # "error"
        /\ cpc = "built" => cans = svt0

C9_Witness ==
    /\ start = "svt"
    /\ cpc = "built"
    /\ c_ndim = 3
    /\ Len(nzdata) >= 2
    /\ \E i \in 1..Len(svt0.kids) : svt0.kids[i] = NilV

(* C10: the COO form svt_to_coo reads from the SVT coo_to_svt builds of an *)
(* in-bounds COO form holds the same (row, value) pairs the same number of *)
(* times, and the same rows in the same order when the coordinates given   *)
(* are unique and in traversal order.                                      *)
C10_CooSvtCoo ==
    (start = "coo" /\ \A k \in 1..Len(nzindex) :
                         \A j \in 1..c_ndim : nzindex[k][j] \in 1..cdim[j])
    => /\ cpc # "error"
       /\ cpc = "read" =>
            /\ Len(cout.nzdata) = Len(nzdata)
            /\ Len(cout.nzindex) = Len(nzindex)
            /\ \A k \in 1..Len(nzdata) :
                  CountOf(cout.nzindex, cout.nzdata, <<nzindex[k], nzdata[k]>>)
                      = CountOf(nzindex, nzdata, <<nzindex[k], nzdata[k]>>)
            /\ InTraversalOrder(cdim, nzindex) =>
                  (cout.nzindex = nzindex /\ cout.nzdata = nzdata)

C10_Witness ==
    /\ start = "coo"
    /\ cpc = "read"
    /\ c_ndim >= 2
    /\ Len(nzdata) >= 2
    /\ ~InTraversalOrder(cdim, nzindex)
    /\ cout.nzindex # nzindex

(* C14: every leaf of the SVT coo_to_svt returns, whatever the order of    *)
(* the rows and the values of the COO form it accepts, has strictly        *)
(* ascending positions, no zero value and at least one entry.              *)
C14_CooLeavesWellFormed ==
    (start = "coo" /\ cpc = "built") =>
        \A lv \in Leaves(cans) : WellFormedLeaf(lv)

(* The cells of an array of shape dm. *)
AllCoords(dm) ==
    { c \in [1..Len(dm) -> 1..Prod(dm, Len(dm))] :
        \A j \in 1..Len(dm) : c[j] \in 1..dm[j] }

(* The value the SVT value v, a tree over the axes 1..j, holds in cell c:  *)
(* 0 where it has no entry.                                                *)
RECURSIVE CellValue(_, _, _)
CellValue(v, c, j) ==
    IF v = NilV THEN 0
    ELSE IF j > 1 THEN CellValue(v.kids[c[j]], c, j - 1)
    ELSE IF \E k \in 1..Len(v.offs) : v.offs[k] = c[1]
    THEN v.vals[CHOOSE k \in 1..Len(v.offs) : v.offs[k] = c[1]]
    ELSE 0

(* C15: svt_to_coo of a well-formed SVT succeeds and gives one row per     *)
(* entry of the SVT, as many as svt_nz_count counts: column 0 of a row is  *)
(* the position in the leaf, column j the 1-based index of the child taken *)
(* at axis j, nzdata holds the value of the entry, and the rows follow the *)
(* walk (axis N-1 slowest, the order in the leaf fastest).                 *)
C15_SvtToCooFormat ==
    (start = "svt" /\ cpc # "svt") =>
        LET nz == { c \in AllCoords(cdim) : CellValue(svt0, c, c_ndim) # 0 }
        IN /\ cpc # "error"
           /\ Len(nzindex) = Cardinality(nz)
           /\ Len(nzdata) = Len(nzindex)
           /\ Len(nzdata) = sum_leaf_vector_lengths_REC(svt0, c_ndim)
           /\ \A k \in 1..Len(nzindex) :
                 /\ nzindex[k] \in nz
                 /\ nzdata[k] = CellValue(svt0, nzindex[k], c_ndim)
           /\ InTraversalOrder(cdim, nzindex)

C15_Witness ==
    /\ start = "svt"
    /\ cpc = "coo"
    /\ c_ndim = 3
    /\ Len(nzdata) >= 2
    /\ \E k \in 1..Len(nzindex) : nzindex[k][3] = 2 /\ nzindex[k][1] = 2

(* A row of the COO form has a coordinate out of the bounds of the array. *)
OutOfBounds(row) == \E j \in 1..c_ndim : row[j] < 1 \/ row[j] > cdim[j]

(* C19: coo_to_svt of k >= 1 rows of which one is out of bounds on some    *)
(* axis fails, with the out-of-bound error: the 1st pass stops at the      *)
(* first such row, so that the 2nd pass is never entered and no SVT is     *)
(* returned.  With every row in bounds the error is never raised.          *)
C19_CooBoundsChecked ==
    (start = "coo" /\ Len(nzdata) >= 1) =>
        LET oob == { k \in 1..Len(nzindex) : OutOfBounds(nzindex[k]) }
        IN /\ oob # {} =>
                /\ cpc \in {"coo", "grow", "error"}
                /\ cpc = "grow" => \A k \in oob : ci < k
                /\ cpc = "error" => cerr = "OutOfBound"
           /\ oob = {} => cpc # "error"

C19_Witness ==
    /\ start = "coo"
    /\ cpc = "error"
    /\ cerr = "OutOfBound"
    /\ c_ndim = 3
    /\ ci = 1
    /\ ~OutOfBounds(nzindex[1])
    /\ nzindex[2][2] > cdim[2]

(***************************************************************************)
(* Validation of the indices of a subassignment.                           *)
(***************************************************************************)

(* The rows or elements of the index handed to the call so far: those      *)
(* dispatched, then the one the 1st pass rejected.                         *)
Presented == index \o bad

(* Row r of an 'Mindex' has a coordinate that is NA, < 1 or > dim[j]. *)
InvalidRow(r) == \E j \in 1..x_ndim : r[j] \notin 1..dim[j]

(* Element i of a 'Lindex' is NA, < 1 or > prod(dim). *)
InvalidLidx(i) == i \notin 1..Prod(dim, x_ndim)

(* The errors that report an index of a 1-D subassignment as invalid. *)
ErrInvalid1D == {"InvalidLinearIndex", "InvalidIndex"}

C20_NoTransientEscapes ==
    (pc = "done" /\ x_ndim >= 2) =>
        \A lv \in Leaves(Deref(heap, result)) : lv.t = "lv"

C20_Witness ==
    /\ pc = "done"
    /\ x_ndim = 3
    /\ \E a \in 1..Len(heap) : heap[a].t = "ids"
    /\ \E a \in 1..Len(heap) : heap[a].t = "xlv"
    /\ result # Nil

(***************************************************************************)
(* Properties of the round trips through an array and a dgCMatrix.         *)
(***************************************************************************)

(* The element of the array arr of shape dm in cell c. *)
ArrayElt(dm, arr, c) == arr[TraversalRank(dm, c, Len(dm)) + 1]

(* C11: the SVT dense_to_svt builds from the array svt_to_dense gives of a *)
(* well-formed SVT is that SVT, whatever the element kind; dense_to_svt    *)
(* returns no node without a child, and the absent SVT for an array of     *)
(* zeros.                                                                  *)
C11_SvtDenseSvt ==
    /\ (dstart = "svt" /\ dpc \in {"arr", "end", "error"}) =>
          /\ dpc # "error"
          /\ dpc = "end" => dsvt = dsvt0
    /\ (dstart = "dense" /\ dpc \in {"svt", "end"}) =>
          /\ NodesNonEmpty(dsvt)
          /\ (\A k \in 1..Len(darr0) : darr0[k] = 0) => dsvt = NilV

(* C12: for an array of any of the seven element kinds, dense_to_svt       *)
(* succeeds and gives the SVT that holds, in each cell, the element of the *)
(* array, with an entry exactly where that element is not the zero of the  *)
(* kind; svt_to_dense of that SVT is the array.                            *)
C12_DenseSvtDense ==
    dstart = "dense" =>
        /\ dpc # "error"
        /\ dpc \in {"svt", "end"} =>
              /\ \A c \in AllCoords(ddim) :
                    CellValue(dsvt, c, Len(ddim)) = ArrayElt(ddim, darr0, c)
              /\ \A lv \in Leaves(dsvt) : WellFormedLeaf(lv)
        /\ dpc = "end" => darr = darr0

NonZeroRows(c) ==
    { r \in 1..Len(fields) :
        /\ c <= Len(fields[r])
        /\ fields[r][c].text # <<>>
        /\ fields[r][c].value # 0 }

(* The leaf of data column c that lists row r of NonZeroRows(c) at         *)
(* position r + shift.                                                     *)
ColumnLeaf(c, shift) ==
    LET rows == SortedSeq(NonZeroRows(c))
    IN IF rows = <<>> THEN NilV
       ELSE LeafV([k \in 1..Len(rows) |-> rows[k] + shift],
                  [k \in 1..Len(rows) |-> fields[rows[k]][c].value])

(* The SVT whose column c is ColumnLeaf(c, shift). *)
ColumnsSVT(shift) ==
    IF \A c \in 1..csv_ncol : NonZeroRows(c) = {} THEN NilV
    ELSE [t |-> "node", kids |-> [c \in 1..csv_ncol |-> ColumnLeaf(c, shift)]]

(* C21: once the file is read, column c of the SVT returned is a leaf      *)
(* exactly when some row has a non-empty, non-zero field in data column c; *)
(* the leaf lists the 1-based indices of those rows in ascending order     *)
(* with the values parsed; the SVT is absent when no field is non-zero.    *)
C21_CsvColumns ==
    rpc = "done" => csv_ans = ColumnsSVT(0)

(***************************************************************************)
(* Properties of the two passes of the subassignment.                      *)
(***************************************************************************)

(* The bottom slots of an array of shape dm, each named by the coordinates *)
(* along the axes 1..N-1 of the cells it holds (the coordinate along axis  *)
(* 0 is set to 1).                                                         *)
BottomSlots(dm) == { c \in AllCoords(dm) : c[1] = 1 }

RECURSIVE SlotRef(_, _, _, _)
(* What the slot c holds in the tree of heap h whose node r has its        *)
(* children along axis j (1-based): an address, or Nil.                    *)
SlotRef(h, r, c, j) ==
    IF r = Nil THEN Nil
    ELSE IF j = 2 THEN h[r].kids[c[2]]
    ELSE SlotRef(h, h[r].kids[c[j]], c, j - 1)

(* The content of the slot c of the tree rooted at r. *)
SlotValue(h, r, c) == Deref(h, SlotRef(h, r, c, Len(c)))

(* The offsets of the IDS of a slot content (none if it has no IDS). *)
IDSOf(v) ==
    IF v.t = "ids" THEN v.elts ELSE IF v.t = "xlv" THEN v.ids ELSE <<>>

(* The transitions of a bottom slot when the update atid is dispatched to  *)
(* it.                                                                     *)
SlotTransition(v, w, atid) ==
    \/ v = NilV /\ w = [t |-> "ids", elts |-> <<atid>>]
    \/ v.t = "lv" /\ w = [t |-> "xlv", offs |-> v.offs, vals |-> v.vals,
                          ids |-> <<atid>>]
    \/ v.t = "ids" /\ w = [v EXCEPT !.elts = Append(@, atid)]
    \/ v.t = "xlv" /\ w = [v EXCEPT !.ids = Append(@, atid)]

RECURSIVE SumOver(_, _)
(* The sum of f over the set S. *)
SumOver(f, S) ==
    IF S = {} THEN 0
    ELSE LET x == CHOOSE y \in S : TRUE
         IN f[x] + SumOver(f, S \ {x})

(* C22: in the 1st pass (N >= 2) each dispatched update changes exactly    *)
(* one bottom slot, by one of Absent -> IDS, Leaf -> Extended Leaf,        *)
(* IDS -> IDS, Extended Leaf -> Extended Leaf, appending its offset to the *)
(* IDS of the slot; so once all L updates are dispatched the lengths of    *)
(* the IDS sum to L, the offsets of each IDS are strictly ascending, and   *)
(* the leaf of each Extended Leaf is the leaf X holds in that slot; no IDS *)
(* is ever empty.                                                          *)
C22_BottomSlotTransitions ==
    /\ [][(pc = "pass1" /\ atid_off' = atid_off + 1) =>
            \E c \in BottomSlots(dim) :
               /\ SlotTransition(SlotValue(heap, ans, c),
                                 SlotValue(heap', ans', c), atid_off)
               /\ \A c2 \in BottomSlots(dim) \ {c} :
                     SlotValue(heap', ans', c2) = SlotValue(heap, ans, c2)]_vars
    /\ [](pc = "pass1" =>
            \A c \in BottomSlots(dim) :
               LET v == SlotValue(heap, ans, c)
                   v0 == SlotValue(heap0, x_SVT, c)
               IN /\ v.t \in {"nil", "lv", "ids", "xlv"}
                  /\ v.t \in {"ids", "xlv"} => Len(IDSOf(v)) >= 1
                  /\ \A k \in 1..(Len(IDSOf(v)) - 1) :
                        IDSOf(v)[k] < IDSOf(v)[k + 1]
                  /\ v.t = "xlv" => v0 = LeafV(v.offs, v.vals)
                  /\ v.t = "lv" => v0 = v
                  /\ v.t \in {"nil", "ids"} => v0 = NilV)
    /\ [](Dispatched =>
            SumOver([c \in BottomSlots(dim) |->
                       Len(IDSOf(SlotValue(heap, ans, c)))],
                    BottomSlots(dim)) = vals_len)

(* All the updates of a batch of 2 are dispatched, both to the same slot,  *)
(* where X holds a leaf.                                                   *)
C22_Witness ==
    /\ Dispatched
    /\ \E c \in BottomSlots(dim) :
          /\ SlotValue(heap, ans, c).t = "xlv"
          /\ Len(SlotValue(heap, ans, c).ids) = 2

(* The cell the element ix of the index addresses. *)
CoordOfUpdate(ix) ==
    IF mode = "Mindex" THEN ix ELSE CoordOfLidx(dim, ix)

(* The node, on the path to cell c, whose children lie along axis j        *)
(* (1-based): it is named by j and the coordinates of c along the axes     *)
(* above j.                                                                *)
NodeId(c, j) == <<j, [i \in 1..Len(c) |-> IF i > j THEN c[i] ELSE 0]>>

(* The nodes on the path from the root to the bottom slot of cell c. *)
PathNodes(c) == { NodeId(c, j) : j \in 2..Len(c) }

(* The nodes on the paths of the updates dispatched so far. *)
TouchedNodes == UNION { PathNodes(UpdateCoord(k)) : k \in 1..Len(index) }

(* The lists a step from heap h to heap g allocates. *)
NodesAllocated(h, g) ==
    { a \in (Len(h) + 1)..Len(g) : g[a].t = "node" }

(* C23: in a call with N >= 2 and L >= 1 a node is allocated (a node of X  *)
(* shallow-copied, or a new node made where X has none) exactly when a     *)
(* path first passes through its place: the root before the 1st update,    *)
(* a copy of X's root when X is not absent, and then, for each update, one *)
(* node per place of its path that no earlier update passed through; a     *)
(* node made or copied in the call is never copied again.                  *)
C23_CloneIffInput ==
    [][/\ (pc = "entry" /\ pc' = "pass1") =>
             /\ Cardinality(NodesAllocated(heap, heap')) = 1
             /\ x_SVT # Nil => ans' # x_SVT /\ heap'[ans'] = heap[x_SVT]
       /\ (pc = "pass1" /\ atid_off' = atid_off + 1) =>
             Cardinality(NodesAllocated(heap, heap')) =
                Cardinality(PathNodes(CoordOfUpdate(index'[Len(index')]))
                               \ (TouchedNodes \cup {NodeId(dim, x_ndim)}))
      ]_vars

RECURSIVE RefAt(_, _, _, _, _)
(* What the tree of heap h holds at the place, on the path to cell c, of   *)
(* the node with children along axis j (j = 1: the bottom slot), found     *)
(* from the node r with children along axis top: an address, or Nil.       *)
RefAt(h, r, c, top, j) ==
    IF r = Nil \/ top = j THEN r
    ELSE RefAt(h, h[r].kids[c[top]], c, top - 1, j)

RECURSIVE Reach(_, _)
(* The addresses of the objects of the subtree at address a. *)
Reach(h, a) ==
    IF a = Nil THEN {}
    ELSE IF h[a].t # "node" THEN {a}
    ELSE {a} \cup UNION { Reach(h, h[a].kids[i]) : i \in 1..Len(h[a].kids) }

(* Some update of the batch passes through the place (c, j). *)
Passed(c, j) ==
    \E k \in 1..Len(index) :
        \A i \in (j + 1)..x_ndim : UpdateCoord(k)[i] = c[i]

(* The places below the root where X holds a subtree (j >= 2) or a leaf    *)
(* (j = 1) that no update passes through.                                  *)
SharedPlaces ==
    { p \in AllCoords(dim) \X (1..(x_ndim - 1)) :
        /\ \A i \in 1..p[2] : p[1][i] = 1
        /\ RefAt(heap0, x_SVT, p[1], x_ndim, p[2]) # Nil
        /\ ~Passed(p[1], p[2]) }

(* C24: the SVT returned by a call with N >= 2 and L >= 1 holds, at the    *)
(* same place, the very object of every leaf of X whose bottom slot no     *)
(* update addresses and of every child subtree of X no update passes       *)
(* through, and these objects are what they were.                          *)
C24_StructuralSharing ==
    (pc = "done" /\ x_ndim >= 2 /\ vals_len >= 1) =>
        \A p \in SharedPlaces :
           LET a == RefAt(heap0, x_SVT, p[1], x_ndim, p[2])
           IN /\ RefAt(heap, result, p[1], x_ndim, p[2]) = a
              /\ \A b \in Reach(heap0, a) : heap[b] = heap0[b]

(* A call on a 3-D array has returned; X holds a subtree no update passed  *)
(* through, and a leaf no update addressed under a node an update passed   *)
(* through.                                                                *)
C24_Witness ==
    /\ pc = "done"
    /\ x_ndim = 3
    /\ vals_len >= 1
    /\ \E p \in SharedPlaces : p[2] = 2
    /\ \E p \in SharedPlaces : p[2] = 1 /\ Passed(p[1], 2)

(* The largest element of the finite set S of naturals (0 if S is empty). *)
Largest(S) == IF S = {} THEN 0 ELSE CHOOSE x \in S : \A y \in S : y <= x

(* The length of the IDS of the bottom slot c of the tree under            *)
(* construction, and of the leaf vector the slot had in X (0 if none).     *)
SlotIDSLen(c) == Len(IDSOf(SlotValue(heap, ans, c)))

SlotLvLen(c) ==
    LET v == SlotValue(heap, ans, c)
    IN IF v.t = "xlv" THEN Len(v.offs) ELSE 0

(* min(INT_MAX, lv_len + IDS_len) for the bottom slot c. *)
SlotWorstMergedLen(c) ==
    IF SlotLvLen(c) + SlotIDSLen(c) > INT_MAX THEN INT_MAX
    ELSE SlotLvLen(c) + SlotIDSLen(c)

(* The bottom slots with an IDS. *)
TouchedSlots == { c \in BottomSlots(dim) : SlotIDSLen(c) > 0 }

(* C25: in the 1st pass, after each dispatched update, max_IDS_len is the  *)
(* largest IDS length over the bottom slots and max_postmerge_lv_len the   *)
(* largest min(INT_MAX, lv_len + IDS_len) over the touched slots; so       *)
(* max_postmerge_lv_len is never below max_IDS_len.                        *)
C25_PassOneBookkeeping ==
    (pc = "pass1" /\ atid_off >= 1) =>
        /\ max_IDS_len = Largest({ SlotIDSLen(c) : c \in BottomSlots(dim) })
        /\ max_postmerge_lv_len =
               Largest({ SlotWorstMergedLen(c) : c \in TouchedSlots })
        /\ max_IDS_len <= INT_MAX => max_postmerge_lv_len >= max_IDS_len

(* Two updates are dispatched, to an empty slot and to a slot with a leaf  *)
(* vector of X, or both to a slot with a leaf vector of X.                 *)
C25_Witness ==
    /\ pc = "pass1"
    /\ atid_off = 2
    /\ max_postmerge_lv_len > max_IDS_len
    /\ \/ Cardinality(TouchedSlots) = 2
       \/ max_IDS_len = 2

(* The leaf vector REC_absorb_vals_dispatched_by_[M|L]index hands to       *)
(* _remove_zeros_from_leaf_vector for the bottom slot c, together with     *)
(* sort_bufs->offs: the leaf made from the IDS, merged with the leaf of X  *)
(* if the slot holds an extended leaf vector.  NilV if the import of the   *)
(* offsets fails.                                                          *)
PreCompactionLeaf(c) ==
    LET v == SlotValue(heap, ans, c)
        r == make_leaf_vector_from_IDS(mode, IDSOf(v), index, vals, dim[1])
    IN IF r.err # "" THEN NilV
       ELSE IF v.t = "xlv"
       THEN merge_leaf_vectors(LeafV(v.offs, v.vals), r.lv)
       ELSE r.lv

(* What the 2nd pass reads and writes in the buffers of alloc_sort_bufs    *)
(* for the bottom slot c is within their lengths: IDS_len entries of       *)
(* 'order', 'rxbuf1', 'rxbuf2' (length max_IDS_len), IDS_len entries of    *)
(* 'offs' at the import and one per entry of the leaf vector at the        *)
(* removal of the zeros (length max_postmerge_lv_len).                     *)
SlotWithinSortBufs(c) ==
    /\ SlotIDSLen(c) <= max_IDS_len
    /\ SlotIDSLen(c) <= max_postmerge_lv_len
    /\ PreCompactionLeaf(c) # NilV =>
           Len(PreCompactionLeaf(c).offs) <= max_postmerge_lv_len

(* C26: when the 2nd pass runs (N >= 2), for every bottom slot it          *)
(* processes the IDS is no longer than max_IDS_len, and the imported       *)
(* offsets and the leaf vector before its zeros are removed are no longer  *)
(* than max_postmerge_lv_len: no access to a scratch buffer is out of      *)
(* range.                                                                  *)
C26_ScratchBuffersSuffice ==
    [][(pc = "pass1" /\ atid_off = vals_len /\ pc' # "pass1") =>
          \A c \in TouchedSlots : SlotWithinSortBufs(c)]_vars

(* The 2nd pass has run on buffers used to their full length: some IDS     *)
(* held two offsets and some slot held a leaf vector of X and an IDS.      *)
C26_Witness ==
    /\ pc = "done"
    /\ x_ndim >= 2
    /\ max_IDS_len = 2
    /\ max_postmerge_lv_len > max_IDS_len

(* The entries of X in the cells no update of the batch addresses. *)
Kept ==
    { e \in Entries(Deref(heap0, x_SVT)) : e[1] \notin Addressed }

(* The index update k (1-based) of a batch on a 1-D array gives, and       *)
(* whether it is a valid one.                                              *)
IndexElt(k) == IF mode = "Mindex" THEN index[k][1] ELSE index[k]

ValidIndexElt(k) == IndexElt(k) # NA_INTEGER /\ IndexElt(k) \in 1..dim[1]

(* C27: for a 1-D X and L >= 1 updates the call returns a leaf vector, or  *)
(* the absent SVT, that represents X overwritten by the updates in         *)
(* incoming order: the last value written to each addressed coordinate,    *)
(* the entries of X at the other coordinates, no zero, and the absent SVT  *)
(* when nothing remains; an index that is NA or outside 1..dim[0] is an    *)
(* error.                                                                  *)
C27_OneDimFastPath ==
    (x_ndim = 1 /\ vals_len >= 1 /\ Len(index) = vals_len) =>
        LET valid == \A k \in 1..Len(index) : ValidIndexElt(k)
            v == Deref(heap, result)
        IN /\ pc = "error" => ~valid
           /\ pc = "done" =>
                 /\ valid
                 /\ v = NilV \/ WellFormedLeaf(v)
                 /\ Entries(v) = Kept \cup Written
                 /\ (v = NilV) = (Kept \cup Written = {})

(* The matrix whose row k holds the coordinates of the k-th linear index   *)
(* of the batch.                                                           *)
MindexOfLindex == [k \in 1..Len(index) |-> CoordOfLidx(dim, index[k])]

(* C28: for N >= 2 and every Lidx in 1..prod(dim), the descent by linear   *)
(* index takes at each axis the child the descent by the coordinates of    *)
(* Lidx takes, a child of the node; the axis-0 offsets imported in the 2nd *)
(* pass are those imported from the coordinates; and the call by Lindex    *)
(* returns the SVT the call by Mindex returns on the matrix of the         *)
(* coordinates, leaving the same heap.                                     *)
C28_LindexAgreesWithMindex ==
    (mode = "Lindex" /\ x_ndim >= 2 /\ vals_len >= 1) =>
        /\ pc = "pass1" =>
              /\ \A Lidx \in 1..Prod(dim, x_ndim) :
                    LET byL == descend_to_bottom_by_Lidx(heap, ans, x_SVT, Nil,
                                   dim, x_ndim - 1, Lidx - 1)
                        byM == descend_to_bottom_by_Mindex_row(heap, ans, x_SVT,
                                   Nil, dim, x_ndim - 1, CoordOfLidx(dim, Lidx))
                    IN /\ byL = byM
                       /\ byL.err = ""
                       /\ byL.idx = CoordOfLidx(dim, Lidx)[2] - 1
                       /\ byL.idx \in 0..(dim[2] - 1)
              /\ \A c \in TouchedSlots :
                    LET ids == IDSOf(SlotValue(heap, ans, c))
                        byL == import_selected_Lindex_elts_to_offs_buf(
                                   index, ids, dim[1])
                        byM == import_selected_Mindex_coord1_to_offs_buf(
                                   [k \in 1..Len(index) |-> MindexOfLindex[k][1]],
                                   ids, dim[1])
                    IN /\ byL = byM
                       /\ byL.err = ""
                       /\ \A k \in 1..Len(ids) :
                             byL.offs[k] = (index[ids[k] + 1] - 1) % dim[1]
        /\ pc = "done" =>
              LET byM == C_subassign_SVT_by_Mindex(heap0, x_SVT, dim,
                                                   MindexOfLindex, vals)
              IN /\ byM.err = ""
                 /\ byM.ref = result
                 /\ byM.h = heap

(* A call by Lindex on a 3-D array with two updates of distinct cells has  *)
(* returned an SVT that is not absent.                                     *)
C28_Witness ==
    /\ pc = "done"
    /\ mode = "Lindex"
    /\ x_ndim = 3
    /\ Len(index) = 2
    /\ index[1] # index[2]
    /\ result # Nil

(* Every coordinate of every row of 'nzindex' is within the array. *)
CooInBounds ==
    \A k \in 1..Len(nzdata) : \A j \in 1..c_ndim : nzindex[k][j] \in 1..cdim[j]

(* The rows among the first n of 'nzindex' that are routed to the leaf     *)
(* slot c, in incoming order.                                              *)
RoutedTo(c, n) ==
    SortedSeq({ k \in 1..n : \A j \in 2..c_ndim : nzindex[k][j] = c[j] })

RECURSIVE CooSlot(_, _, _)
(* What the leaf slot c holds in the tree v under construction, v having   *)
(* its children along axis j (1-based): the count of the slot while its    *)
(* parent is a vector of counts, else the child of the parent.             *)
CooSlot(v, c, j) ==
    IF v = NilV THEN NilV
    ELSE IF j > 2 THEN CooSlot(v.kids[c[j]], c, j - 1)
    ELSE IF v.t = "counts" THEN [t |-> "count", n |-> v.n[c[2]]]
    ELSE v.kids[c[2]]

(* The count of a leaf slot. *)
CountOfSlot(s) == IF s = NilV THEN 0 ELSE s.n

RECURSIVE Transients(_)
(* The vectors of counts and appendable leaf vectors of a tree. *)
Transients(v) ==
    IF v.t = "node" THEN UNION { Transients(v.kids[i]) : i \in 1..Len(v.kids) }
    ELSE IF v.t \in {"counts", "alv"} THEN {v}
    ELSE {}

(* The leaf slot c in the 2nd pass, after ci rows are stored: absent if no *)
(* row is routed to it; its count, or an empty appendable leaf vector of   *)
(* that capacity, while none of its rows is stored; an appendable leaf     *)
(* vector holding the rows stored so far while some are to come; a leaf    *)
(* vector once the last one is stored.                                     *)
FillSlotOK(c) ==
    LET s == CooSlot(cans, c, c_ndim)
        all == RoutedTo(c, Len(nzdata))
        got == RoutedTo(c, ci)
        pos == [k \in 1..Len(got) |-> nzindex[got[k]][1]]
        vls == [k \in 1..Len(got) |-> nzdata[got[k]]]
    IN IF Len(all) = 0 THEN s = NilV \/ s = [t |-> "count", n |-> 0]
       ELSE IF Len(got) = Len(all) THEN s = LeafV(pos, vls)
       ELSE \/ s = [t |-> "alv", pos |-> pos, vals |-> vls, len |-> Len(all)]
            \/ Len(got) = 0 /\ s = [t |-> "count", n |-> Len(all)]

(* C29: building an SVT from a COO with N >= 2 and every coordinate in     *)
(* bounds.  In the 1st pass the count of each leaf slot is the number of   *)
(* rows read so far that are routed to it.  In the 2nd pass each row is    *)
(* appended to the appendable leaf vector of its slot, which never holds   *)
(* more than its capacity and becomes a leaf vector exactly when full; a   *)
(* slot no row is routed to stays absent; no pass fails; and the SVT       *)
(* returned holds no vector of counts and no appendable leaf vector.       *)
C29_CooTwoPass ==
    (c_ndim >= 2 /\ CooInBounds) =>
        /\ cpc = "grow" =>
              \A c \in BottomSlots(cdim) :
                  CountOfSlot(CooSlot(cans, c, c_ndim)) = Len(RoutedTo(c, ci))
        /\ cpc \in {"fill", "built", "read"} =>
              \A c \in BottomSlots(cdim) : FillSlotOK(c)
        /\ cpc = "fill" =>
              \A a \in Transients(cans) :
                  a.t = "alv" => Len(a.pos) < a.len /\ Len(a.vals) = Len(a.pos)
        /\ cpc \in {"built", "read"} =>
              /\ Transients(cans) = {}
              /\ \A c \in BottomSlots(cdim) :
                    Len(RoutedTo(c, Len(nzdata))) = 0 =>
                        CooSlot(cans, c, c_ndim) = NilV
        /\ cpc = "error" => cerr \notin {"OutOfBound", "InternalError"}

(* Two rows of a 3-D COO are routed to one leaf slot and the first of them *)
(* is stored: the slot holds an appendable leaf vector of capacity 2 with  *)
(* one entry.                                                              *)
C29_Witness ==
    /\ cpc = "fill"
    /\ c_ndim = 3
    /\ CooInBounds
    /\ ci = 1
    /\ \E c \in BottomSlots(cdim) :
          /\ Len(RoutedTo(c, Len(nzdata))) = 2
          /\ CooSlot(cans, c, c_ndim).t = "alv"

(* The positions pos are strictly ascending. *)
StrictlyAscending(pos) == \A k \in 1..(Len(pos) - 1) : pos[k] < pos[k + 1]

(* C30: the construction of a leaf vector from (pos, vals) fails unless    *)
(* pos and vals have the same length, at most 2^31 - 1, and pos is         *)
(* strictly ascending: whenever new_leaf_vector or make_leaf_vector        *)
(* returns, the leaf vector returned has as many positions as values and   *)
(* its positions are strictly ascending.                                   *)
C30_LeafNewValidates ==
    lpc = "done" =>
        /\ Len(l_ans.offs) = Len(l_ans.vals)
        /\ Len(l_ans.offs) <= INT_MAX
        /\ StrictlyAscending(l_ans.offs)

====
